---- MODULE Spec2Model ----
(***************************************************************************)
(* Model of the external-sync reconciliation engine of trainerize-sync-app *)
(*                                                                         *)
(*   - TrainerizeClient (src/src/lib/trainerize-client.ts): rate limiter,  *)
(*     makeRequest with its retry paths, bulkAddExercises                  *)
(*   - SyncService (same file): previewSync / analyzeExercise /            *)
(*     detectConflicts / performSync                                       *)
(*   - the streaming routes (exercises/add PUT, discovery POST)            *)
(*                                                                         *)
(* Times are in milliseconds.                                              *)
(***************************************************************************)
EXTENDS Integers, Sequences, FiniteSets, TLC

(***************************************************************************)
(* Bounds of the model                                                     *)
(***************************************************************************)
StartTime ==
    1000

TickMs ==
    500

MaxTime ==
    5000

MaxCalls ==
    2

MaxRetriesOpt ==
    4

MaxLocal ==
    2

MaxRows ==
    3

MaxRuns ==
    1

MaxUsers ==
    1

\* bulkAddExercises line 670: pause after every 5th item
PauseEvery ==
    5

\* the id the remote side gives its n-th created exercise
RemoteId(n) ==
    IF n = 1 THEN "tz_1" ELSE IF n = 2 THEN "tz_2" ELSE IF n = 3 THEN "tz_3"
    ELSE IF n = 4 THEN "tz_4" ELSE IF n = 5 THEN "tz_5" ELSE "tz_6"

(***************************************************************************)
(* Program constants                                                       *)
(***************************************************************************)
DefaultRequestsPerSecond ==
    2

DefaultMaxRetries ==
    3

DefaultRetryDelay ==
    1000

VARIABLES
    now,              \* Date.now()
    lastRequestTime,  \* TrainerizeClient.lastRequestTime
    options,          \* TrainerizeClient.options
    server,           \* the responses the remote API may give in this run
    pc,               \* per caller: position inside makeRequest
    attempt,          \* per caller: the attempt parameter of makeRequest
    wake,             \* per caller: deadline of the pending setTimeout
    waits,            \* per caller: retry delays slept so far by the request
    resps,            \* per caller: responses received so far by the request
    result,           \* per caller: what makeRequest gave back to the caller
    callsLeft,        \* per caller: requests the caller will still submit
    queue,            \* callers with an unfinished request, in submit order
    recentStarts,     \* start times of the two most recent fetch() calls
    nHttp,            \* per caller: fetch() calls made by the current request
    lastResponseTime, \* the time the most recent fetch() settled (0 = none yet)
    exercises,        \* local storage: rows of the exercises table, row i has primary key i
    trainerizeData,   \* what getTrainerizeExercises returns
    preview,          \* the SyncPreview returned by the last previewSync
    sync,             \* the run of POST /api/sync/preview -> performSync
    syncLogs,         \* the sync_logs table
    runsLeft,         \* per route: requests that may still arrive
    writeKinds,       \* kinds of the operations that sent a write to the exercises table
    writeCount,       \* writes the exercises table applied in the current run
    failCount,        \* items of the current run whose write was not applied
    bulk,             \* the run of PUT /api/exercises/add -> bulkAddExercises
    exerciseIds,      \* the exerciseIds array of the PUT body
    events,           \* the events written to the stream of the PUT
    addCalls,         \* primary keys of the items for which /exercise/add was called
    remoteCount,      \* exercises created on the remote side
    disc,             \* per discovery request: the state of its handler
    discoveryRunning, \* module variable of the discovery route
    discoveryController, \* module variable: 0 = null, r = the controller made by request r
    aborted,          \* per controller: signal.aborted
    discEvents,       \* per discovery request: the events written to its stream
    compared,         \* a call of detectConflicts: its arguments and what it returned
    mapCall,          \* a call of a mapping function: its argument and what it returned
    operation         \* per caller: the client operation it is in, and its argument

gwVars ==
    <<now, lastRequestTime, options, server, pc, attempt, wake, waits, resps,
      result, callsLeft, queue, recentStarts, nHttp, lastResponseTime>>

dbVars ==
    <<exercises, trainerizeData>>

syncVars ==
    <<sync, syncLogs, runsLeft, writeKinds, writeCount, failCount>>

bulkVars ==
    <<bulk, exerciseIds, events, addCalls, remoteCount>>

discVars ==
    <<disc, discoveryRunning, discoveryController, aborted, discEvents>>

vars ==
    <<gwVars, dbVars, preview, syncVars, bulkVars, discVars, compared, mapCall, operation>>

notGw ==
    <<dbVars, preview, syncVars, bulkVars, discVars, compared, mapCall, operation>>

(***************************************************************************)
(* Remote responses: an HTTP status (0 = fetch rejected, no response), the *)
(* `code` field of the JSON body, and whether the text the server sent     *)
(* (error body / message) contains the word "authentication".              *)
(***************************************************************************)
Resp(status, code, authText) ==
    [status |-> status, code |-> code, authText |-> authText]

R200 ==
    Resp(200, 0, FALSE)

R200Code ==
    Resp(200, 1, FALSE)

R429 ==
    Resp(429, 0, FALSE)

R401 ==
    Resp(401, 0, FALSE)

R403 ==
    Resp(403, 0, FALSE)

R404 ==
    Resp(404, 0, FALSE)

R500 ==
    Resp(500, 0, FALSE)

R500Auth ==
    Resp(500, 0, TRUE)

RNet ==
    Resp(0, 0, FALSE)

Responses ==
    {R200, R200Code, R429, R401, R403, R404, R500, R500Auth, RNet}

Callers ==
    {1, 2}

Pow2(n) ==
    2 ^ n

\* this.rateLimitDelay = 1000 / this.options.requestsPerSecond
rateLimitDelay ==
    1000 \div options.requestsPerSecond

\* waitForRateLimit: the time the caller sleeps before it stamps the watermark
waitTime(t) ==
    IF t - lastRequestTime < rateLimitDelay
    THEN rateLimitDelay - (t - lastRequestTime)
    ELSE 0

\* response.ok
ResponseOk(r) ==
    r.status >= 200 /\ r.status <= 299

\* A 429 branch that does not look at the attempt number
Retry429Always(r, att) ==
    r.status # 0 /\ ~ResponseOk(r) /\ r.status = 429

\* line 198: the 429 branch is taken
Retry429(r, att) ==
    r.status # 0 /\ ~ResponseOk(r) /\ r.status = 429 /\ att < options.maxRetries

\* line 200: exponential backoff
backoffDelayConstant(att) ==
    options.retryDelay

backoffDelay(att) ==
    options.retryDelay * Pow2(att - 1)

\* A catch block that waits like the 429 branch
retryDelayExponential(att) ==
    options.retryDelay * Pow2(att - 1)

\* line 232: linear retry delay of the catch block
retryDelay(att) ==
    options.retryDelay * att

\* The Error thrown inside the try block for a response that is neither
\* retried by the 429 branch, nor a 404, nor a success.  `auth` is
\* error.message.includes('authentication').
ThrownError(r) ==
    IF r.status = 0 THEN [error |-> "network", status |-> 0, auth |-> FALSE]
    ELSE IF r.status = 401 THEN [error |-> "authentication failed", status |-> 401, auth |-> TRUE]
    ELSE IF r.status = 403 THEN [error |-> "access forbidden", status |-> 403, auth |-> FALSE]
    ELSE IF ~ResponseOk(r) THEN [error |-> "API error", status |-> r.status, auth |-> r.authText]
    ELSE [error |-> "error code", status |-> r.status, auth |-> r.authText]

\* line 231: the catch block retries
CatchRetriesOnceMore(e, att) ==
    att <= options.maxRetries /\ ~e.auth

CatchRetries(e, att) ==
    att < options.maxRetries /\ ~e.auth

\* makeRequest without the 404 branch of lines 214-216
OutcomeWithout404(r, att) ==
    IF Retry429(r, att)
    THEN [do |-> "retry", delay |-> backoffDelay(att)]
    ELSE IF ResponseOk(r) /\ r.code = 0
    THEN [do |-> "return", value |-> [kind |-> "data"]]
    ELSE LET e == ThrownError(r) IN
         IF CatchRetries(e, att)
         THEN [do |-> "retry", delay |-> retryDelay(att)]
         ELSE [do |-> "throw", value |-> [kind |-> "error", error |-> e.error, status |-> e.status]]

\* What one attempt of makeRequest does with the response r
Outcome(r, att) ==
    IF Retry429(r, att)
    THEN [do |-> "retry", delay |-> backoffDelay(att)]
    ELSE IF r.status = 404
    THEN [do |-> "return", value |-> [kind |-> "null"]]
    ELSE IF ResponseOk(r) /\ r.code = 0
    THEN [do |-> "return", value |-> [kind |-> "data"]]
    ELSE LET e == ThrownError(r) IN
         IF CatchRetries(e, att)
         THEN [do |-> "retry", delay |-> retryDelay(att)]
         ELSE [do |-> "throw", value |-> [kind |-> "error", error |-> e.error, status |-> e.status]]

NoResult ==
    [kind |-> "none"]

Last2(s) ==
    IF Len(s) <= 2 THEN s ELSE SubSeq(s, Len(s) - 1, Len(s))

RemoveFrom(q, c) ==
    SelectSeq(q, LAMBDA x : x # c)

\* makeRequest entry (line 185): await this.waitForRateLimit(), then fetch().
\* Without a wait the watermark is stamped in the same synchronous run.
BeginAttempt(c) ==
    LET w == waitTime(now) IN
    IF w > 0
    THEN /\ pc' = [pc EXCEPT ![c] = "rateWait"]
         /\ wake' = [wake EXCEPT ![c] = now + w]
         /\ UNCHANGED <<lastRequestTime, recentStarts, nHttp>>
    ELSE /\ pc' = [pc EXCEPT ![c] = "inflight"]
         /\ lastRequestTime' = now
         /\ recentStarts' = Last2(Append(recentStarts, now))
         /\ nHttp' = [nHttp EXCEPT ![c] = @ + 1]
         /\ UNCHANGED wake

\* A caller calls makeRequest(endpoint, body) (attempt = 1)
Submit(c) ==
    /\ pc[c] = "idle"
    /\ callsLeft[c] > 0
    /\ callsLeft' = [callsLeft EXCEPT ![c] = @ - 1]
    /\ attempt' = [attempt EXCEPT ![c] = 1]
    /\ waits' = [waits EXCEPT ![c] = <<>>]
    /\ resps' = [resps EXCEPT ![c] = <<>>]
    /\ result' = [result EXCEPT ![c] = NoResult]
    /\ queue' = Append(queue, c)
    /\ LET w == waitTime(now) IN
       IF w > 0
       THEN /\ pc' = [pc EXCEPT ![c] = "rateWait"]
            /\ wake' = [wake EXCEPT ![c] = now + w]
            /\ nHttp' = [nHttp EXCEPT ![c] = 0]
            /\ UNCHANGED <<lastRequestTime, recentStarts>>
       ELSE /\ pc' = [pc EXCEPT ![c] = "inflight"]
            /\ lastRequestTime' = now
            /\ recentStarts' = Last2(Append(recentStarts, now))
            /\ nHttp' = [nHttp EXCEPT ![c] = 1]
            /\ UNCHANGED wake
    /\ UNCHANGED <<now, options, server, lastResponseTime>>
    /\ UNCHANGED notGw

\* waitForRateLimit lines 174-177: the setTimeout fires, the watermark is
\* stamped, and makeRequest goes on to fetch()
RateLimitTimer(c) ==
    /\ pc[c] = "rateWait"
    /\ now >= wake[c]
    /\ pc' = [pc EXCEPT ![c] = "inflight"]
    /\ lastRequestTime' = now
    /\ recentStarts' = Last2(Append(recentStarts, now))
    /\ nHttp' = [nHttp EXCEPT ![c] = @ + 1]
    /\ UNCHANGED <<now, options, server, attempt, wake, waits, resps, result,
                   callsLeft, queue, lastResponseTime>>
    /\ UNCHANGED notGw

\* The fetch() of caller c settles with response r (lines 188-239)
Respond(c, r) ==
    /\ pc[c] = "inflight"
    /\ r \in server
    /\ resps' = [resps EXCEPT ![c] = Append(@, r)]
    /\ lastResponseTime' = now
    /\ LET o == Outcome(r, attempt[c]) IN
       IF o.do = "retry"
       THEN /\ pc' = [pc EXCEPT ![c] = "backoff"]
            /\ wake' = [wake EXCEPT ![c] = now + o.delay]
            /\ waits' = [waits EXCEPT ![c] = Append(@, o.delay)]
            /\ UNCHANGED <<result, queue>>
       ELSE /\ pc' = [pc EXCEPT ![c] = "idle"]
            /\ result' = [result EXCEPT ![c] = o.value]
            /\ queue' = RemoveFrom(queue, c)
            /\ UNCHANGED <<wake, waits>>
    /\ UNCHANGED <<now, lastRequestTime, options, server, attempt, callsLeft,
                   recentStarts, nHttp>>
    /\ UNCHANGED notGw

\* The retry setTimeout fires: return this.makeRequest(endpoint, body, attempt + 1)
BackoffTimer(c) ==
    /\ pc[c] = "backoff"
    /\ now >= wake[c]
    /\ attempt' = [attempt EXCEPT ![c] = @ + 1]
    /\ BeginAttempt(c)
    /\ UNCHANGED <<now, options, server, waits, resps, result, callsLeft, queue,
                   lastResponseTime>>
    /\ UNCHANGED notGw

\* The caller is in no client operation
NoOperation ==
    [name |-> "makeRequest", exercise |-> [name |-> ""]]

\* Arguments of addExercise and updateExercise: with a name, and without
OperationExercises ==
    {[name |-> ""], [name |-> "Squats"]}

\* validateExerciseCreate (lines 732-765): the name is required
validateExerciseCreate(exercise) ==
    exercise.name # ""

\* addExercise (lines 515-527) and updateExercise (lines 461-465) after their
\* own await this.waitForRateLimit(): the watermark is stamped; addExercise
\* returns when the data is invalid; otherwise makeRequest is entered, and
\* its waitForRateLimit finds the watermark just stamped
AfterOperationWait(c, op, exercise) ==
    /\ lastRequestTime' = now
    /\ IF op = "addExercise" /\ ~validateExerciseCreate(exercise)
       THEN /\ pc' = [pc EXCEPT ![c] = "idle"]
            /\ result' = [result EXCEPT ![c] = [kind |-> "invalid"]]
            /\ UNCHANGED <<attempt, wake, waits, resps, queue, recentStarts, nHttp>>
       ELSE /\ attempt' = [attempt EXCEPT ![c] = 1]
            /\ waits' = [waits EXCEPT ![c] = <<>>]
            /\ resps' = [resps EXCEPT ![c] = <<>>]
            /\ result' = [result EXCEPT ![c] = NoResult]
            /\ queue' = Append(queue, c)
            /\ IF 0 < rateLimitDelay
               THEN /\ pc' = [pc EXCEPT ![c] = "rateWait"]
                    /\ wake' = [wake EXCEPT ![c] = now + rateLimitDelay]
                    /\ nHttp' = [nHttp EXCEPT ![c] = 0]
                    /\ UNCHANGED recentStarts
               ELSE /\ pc' = [pc EXCEPT ![c] = "inflight"]
                    /\ recentStarts' = Last2(Append(recentStarts, now))
                    /\ nHttp' = [nHttp EXCEPT ![c] = 1]
                    /\ UNCHANGED wake

\* A caller calls addExercise(exercise) or updateExercise(exercise)
ClientOperation(c, op, exercise) ==
    /\ pc[c] = "idle"
    /\ callsLeft[c] > 0
    /\ callsLeft' = [callsLeft EXCEPT ![c] = @ - 1]
    /\ operation' = [operation EXCEPT ![c] = [name |-> op, exercise |-> exercise]]
    /\ IF waitTime(now) > 0
       THEN /\ pc' = [pc EXCEPT ![c] = "opWait"]
            /\ wake' = [wake EXCEPT ![c] = now + waitTime(now)]
            /\ UNCHANGED <<lastRequestTime, attempt, waits, resps, result, queue,
                           recentStarts, nHttp>>
       ELSE AfterOperationWait(c, op, exercise)
    /\ UNCHANGED <<now, options, server, lastResponseTime>>
    /\ UNCHANGED <<dbVars, preview, syncVars, bulkVars, discVars, compared, mapCall>>

\* The setTimeout of the operation's own waitForRateLimit fires
OperationTimer(c) ==
    /\ pc[c] = "opWait"
    /\ now >= wake[c]
    /\ AfterOperationWait(c, operation[c].name, operation[c].exercise)
    /\ UNCHANGED <<now, options, server, callsLeft, lastResponseTime>>
    /\ UNCHANGED notGw

\* Time passes; a due timer fires before the clock moves on
Tick ==
    /\ now < MaxTime
    /\ \A c \in Callers : pc[c] \in {"rateWait", "backoff", "opWait"} => now < wake[c]
    /\ now' = now + TickMs
    /\ UNCHANGED <<lastRequestTime, options, server, pc, attempt, wake, waits,
                   resps, result, callsLeft, queue, recentStarts, nHttp,
                   lastResponseTime>>
    /\ UNCHANGED notGw

(***************************************************************************)
(* SyncService: local storage, previewSync, analyzeExercise                *)
(***************************************************************************)

\* A value that is undefined, null or the empty string (falsy in the code)
Null ==
    ""

Truthy(v) ==
    v # Null

\* String.prototype.toLowerCase on the names used here
toLowerCase(s) ==
    CASE s = "Push-ups" -> "push-ups"
      [] s = "PUSH-UPS" -> "push-ups"
      [] s = "Squats" -> "squats"
      [] s = "SQUATS" -> "squats"
      [] OTHER -> s

\* getTrainerizeExercises (mock data of the source)
MockTrainerizeData ==
    << [id |-> "tr_1", name |-> "Push-ups",
        description |-> "Basic bodyweight exercise", category |-> "Strength"],
       [id |-> "tr_2", name |-> "Squats",
        description |-> "Lower body compound exercise", category |-> "Strength"] >>

\* Remote snapshots: the mock data, and lists with a changed description and
\* category, a lower-case name, a missing id, a missing name, and one
\* record that has an id and a name only
RemoteSnapshots ==
    { MockTrainerizeData,
      << [id |-> "tr_1", name |-> "push-ups",
          description |-> "Knee push-up", category |-> "Cardio"],
         [id |-> Null, name |-> "SQUATS",
          description |-> Null, category |-> Null] >>,
      << [id |-> "tr_2", name |-> Null,
          description |-> "Lower body compound exercise", category |-> Null] >>,
      << [id |-> "tr_2", name |-> "Squats",
          description |-> Null, category |-> Null] >> }

\* Rows of the exercises table a run may start from
LocalRows ==
    [trainerize_id : {Null, "tr_1", "tr_2"},
     name : {Null, "PUSH-UPS", "Squats"},
     description : {Null, "Basic bodyweight exercise"},
     category : {Null, "Strength"}]

SeqsUpTo(S, n) ==
    UNION {[1..k -> S] : k \in 0..n}

\* A table that accepts every statement
UniqueNotEnforced(rows) ==
    TRUE

\* The exercises table keeps trainerize_id unique among the rows that have
\* one (README: trainerize_id TEXT UNIQUE; the upsert of the discovery route
\* names it as its conflict target); a statement that would break this is
\* answered with an error
UniqueTrainerizeId(rows) ==
    \A i, j \in DOMAIN rows :
        (i # j /\ Truthy(rows[i].trainerize_id)) =>
            rows[i].trainerize_id # rows[j].trainerize_id

MaxOf(S) ==
    CHOOSE x \in S : \A y \in S : y <= x

\* existingByTrainerizeId.get(id): rows with a falsy trainerize_id are not
\* indexed, a later row replaces an earlier one with the same key (0 = miss)
existingByTrainerizeId(rows, id) ==
    LET hits == {i \in DOMAIN rows :
                    Truthy(rows[i].trainerize_id) /\ rows[i].trainerize_id = id}
    IN IF hits = {} THEN 0 ELSE MaxOf(hits)

\* existingByName.get(key): keyed by the lower-cased name of rows with a name
existingByName(rows, key) ==
    LET hits == {i \in DOMAIN rows :
                    Truthy(rows[i].name) /\ toLowerCase(rows[i].name) = key}
    IN IF hits = {} THEN 0 ELSE MaxOf(hits)

\* mapTrainerizeData: the significant columns (column names are the
\* standard ones; transformValue leaves text columns as they are)
mapTrainerizeData(t) ==
    [trainerize_id |-> t.id, name |-> t.name,
     description |-> t.description, category |-> t.category]

significantFields ==
    <<"name", "description", "category">>

\* detectConflicts that does not ask for a value on the existing side
detectConflictsNewSideOnly(newData, existingData) ==
    LET differs(f) == /\ Truthy(newData[f])
                      /\ newData[f] # existingData[f]
        entry(f) == [field |-> f, old |-> existingData[f], new |-> newData[f]]
    IN SelectSeq([i \in 1..Len(significantFields) |->
                     IF differs(significantFields[i])
                     THEN entry(significantFields[i])
                     ELSE [field |-> Null, old |-> Null, new |-> Null]],
                 LAMBDA e : e.field # Null)

\* detectConflicts: one entry `field: "old" -> "new"` per significant field
\* that is truthy on both sides and differs
detectConflicts(newData, existingData) ==
    LET differs(f) == /\ Truthy(newData[f])
                      /\ Truthy(existingData[f])
                      /\ newData[f] # existingData[f]
        entry(f) == [field |-> f, old |-> existingData[f], new |-> newData[f]]
    IN SelectSeq([i \in 1..Len(significantFields) |->
                     IF differs(significantFields[i])
                     THEN entry(significantFields[i])
                     ELSE [field |-> Null, old |-> Null, new |-> Null]],
                 LAMBDA e : e.field # Null)

\* No mapping function has been called
NoMapCall ==
    [pc |-> "none"]

\* A timestamp column without a value
NoTime ==
    0

\* A time before the clock of the model starts
Earlier ==
    StartTime - TickMs

\* The end of mapTrainerizeData (lines 1201-1208): updated_at is set to now,
\* created_at is set to now unless the mapped data already has one
AddTimestamps(mapped, nowIso) ==
    LET hasCreated == "created_at" \in DOMAIN mapped /\ mapped.created_at # NoTime
    IN [f \in DOMAIN mapped \cup {"created_at", "updated_at"} |->
           IF f = "updated_at" THEN nowIso
           ELSE IF f = "created_at"
                THEN (IF hasCreated THEN mapped.created_at ELSE nowIso)
                ELSE mapped[f]]

\* Rows with their timestamp columns, as an update operation finds them
StampedRows ==
    [trainerize_id : {"tr_1"}, name : {"PUSH-UPS", "Push-ups"},
     description : {Null}, category : {Null},
     created_at : {NoTime, Earlier}, updated_at : {NoTime, Earlier}]

\* update(mapped_data).eq(primaryKey, pk) with the timestamp columns: a
\* column of the data replaces the row's, the others keep their value
UpdateStampedRow(rows, pk, data) ==
    [i \in DOMAIN rows |->
        IF i = pk
        THEN [f \in DOMAIN rows[i] |->
                 IF f \in {"created_at", "updated_at"}
                 THEN (IF f \in DOMAIN data THEN data[f] ELSE rows[i][f])
                 ELSE (IF Truthy(data[f]) THEN data[f] ELSE rows[i][f])]
        ELSE rows[i]]

\* analyzeExercise maps the remote record that matches row 1 by id
\* (line 1143) into the mapped_data of an update operation
MapForUpdate ==
    /\ mapCall.pc = "none"
    /\ Len(exercises) >= 1
    /\ Len(trainerizeData) >= 1
    /\ mapCall' = [pc |-> "mapped", pk |-> 1, existing_data |-> exercises[1],
                   mapped_data |-> AddTimestamps(mapTrainerizeData(trainerizeData[1]), now),
                   at |-> now]
    /\ UNCHANGED <<gwVars, compared, operation, dbVars, preview, syncVars, bulkVars, discVars>>

\* updateExercise (lines 1265-1283) sends the mapped_data of the operation
UpdateMapped ==
    /\ mapCall.pc = "mapped"
    /\ exercises' = UpdateStampedRow(exercises, mapCall.pk, mapCall.mapped_data)
    /\ mapCall' = [mapCall EXCEPT !.pc = "updated"]
    /\ UNCHANGED <<gwVars, compared, operation, trainerizeData, preview, syncVars, bulkVars, discVars>>

(***************************************************************************)
(* TrainerizeClient.mapSupabaseToTrainerize.  A JavaScript value is a      *)
(* record with its kind: undefined, null, a string or an array.            *)
(***************************************************************************)
Undefined ==
    [kind |-> "undefined"]

JsNull ==
    [kind |-> "null"]

Str(s) ==
    [kind |-> "string", v |-> s]

Arr(a) ==
    [kind |-> "array", v |-> a]

\* value !== undefined && value !== null fails
IsAbsent(value) ==
    value.kind \in {"undefined", "null"}

\* The constructor's fieldMappings (lines 145-165)
fieldMappings ==
    << [supabaseField |-> "name", trainerizeField |-> "name", transform |-> "none"],
       [supabaseField |-> "alternate_name", trainerizeField |-> "alternateName",
        transform |-> "none"],
       [supabaseField |-> "description", trainerizeField |-> "description",
        transform |-> "none"],
       [supabaseField |-> "category", trainerizeField |-> "recordType",
        transform |-> "mapToRecordType"],
       [supabaseField |-> "muscle_groups", trainerizeField |-> "tag",
        transform |-> "mapToTag"],
       [supabaseField |-> "video_url", trainerizeField |-> "videoUrl", transform |-> "none"],
       [supabaseField |-> "video_url", trainerizeField |-> "videoType",
        transform |-> "inferVideoType"] >>

\* mapToRecordType (lines 773-781), on the categories used here
mapToRecordType(category) ==
    IF category.kind # "string" THEN Str("general")
    ELSE CASE category.v \in {"Strength", "strength"} -> Str("strength")
           [] category.v \in {"Cardio", "cardio"} -> Str("cardio")
           [] OTHER -> Str("general")

\* mapToTag (lines 783-801): the first muscle group decides
mapToTag(muscleGroups) ==
    IF muscleGroups.kind # "array" \/ Len(muscleGroups.v) = 0 THEN Str("none")
    ELSE CASE muscleGroups.v[1] \in {"Legs", "legs"} -> Str("legs")
           [] muscleGroups.v[1] \in {"Core", "core"} -> Str("abs")
           [] OTHER -> Str("fullBody")

\* inferVideoType (lines 804-809), on the URLs used here
inferVideoType(url) ==
    IF url.kind # "string" \/ url.v = "" THEN Undefined
    ELSE CASE url.v = "https://youtu.be/abc" -> Str("youtube")
           [] url.v = "https://vimeo.com/123" -> Str("vimeo")
           [] OTHER -> Undefined

Transformed(mapping, value) ==
    CASE mapping.transform = "mapToRecordType" -> mapToRecordType(value)
      [] mapping.transform = "mapToTag" -> mapToTag(value)
      [] mapping.transform = "inferVideoType" -> inferVideoType(value)
      [] OTHER -> value

\* A value that an `if (value)` takes
JsTruthy(value) ==
    \/ value.kind = "array"
    \/ value.kind = "string" /\ value.v # ""

\* buildTags (lines 812-846)
buildTags(exercise) ==
    LET muscles == IF exercise.muscle_groups.kind = "array"
                   THEN [i \in DOMAIN exercise.muscle_groups.v |->
                            [type |-> "muscle", name |-> exercise.muscle_groups.v[i]]]
                   ELSE <<>>
        equipment == IF ~JsTruthy(exercise.equipment) THEN <<>>
                     ELSE IF exercise.equipment.kind = "array"
                     THEN [i \in DOMAIN exercise.equipment.v |->
                              [type |-> "equipment", name |-> exercise.equipment.v[i]]]
                     ELSE <<[type |-> "equipment", name |-> exercise.equipment.v]>>
        difficulty == IF JsTruthy(exercise.difficulty_level)
                      THEN <<[type |-> "difficulty", name |-> exercise.difficulty_level.v]>>
                      ELSE IF JsTruthy(exercise.difficulty)
                      THEN <<[type |-> "difficulty", name |-> exercise.difficulty.v]>>
                      ELSE <<>>
        category == IF JsTruthy(exercise.category)
                    THEN <<[type |-> "category", name |-> exercise.category.v]>>
                    ELSE <<>>
    IN Arr(muscles \o equipment \o difficulty \o category)

\* mapSupabaseToTrainerize (lines 679-700): the object starts as
\* { name: exercise.name }, each mapping whose value is there and whose
\* transform returns something sets its field, tags is always set
mapSupabaseToTrainerize(exercise) ==
    LET set == {i \in DOMAIN fieldMappings :
                   /\ ~IsAbsent(exercise[fieldMappings[i].supabaseField])
                   /\ Transformed(fieldMappings[i],
                                  exercise[fieldMappings[i].supabaseField]) # Undefined}
        keys == {"name", "tags"} \cup {fieldMappings[i].trainerizeField : i \in set}
    IN [k \in keys |->
           IF k = "tags" THEN buildTags(exercise)
           ELSE IF \E j \in set : fieldMappings[j].trainerizeField = k
           THEN LET i == CHOOSE j \in set : fieldMappings[j].trainerizeField = k
                IN Transformed(fieldMappings[i], exercise[fieldMappings[i].supabaseField])
           ELSE exercise.name]

\* Local exercises the function may be given
LocalExercises ==
    [name : {Undefined, JsNull, Str("Squats")},
     alternate_name : {Undefined, Str("Air squat")},
     description : {JsNull, Str("Lower body compound exercise")},
     category : {Undefined, JsNull, Str("Strength"), Str("Yoga")},
     muscle_groups : {Undefined, Arr(<<>>), Arr(<<"Legs">>)},
     video_url : {JsNull, Str("https://youtu.be/abc"), Str("https://example.com/v.mp4")},
     equipment : {Undefined, Str("Barbell")},
     difficulty_level : {JsNull, Str("beginner")},
     difficulty : {Undefined}]

\* The function is called and returns
MapSupabaseToTrainerize ==
    /\ mapCall.pc = "args"
    /\ mapCall' = [mapCall EXCEPT !.pc = "returned",
                                  !.mapped = mapSupabaseToTrainerize(mapCall.exercise)]
    /\ UNCHANGED <<gwVars, compared, operation, dbVars, preview, syncVars, bulkVars, discVars>>

\* No call of detectConflicts has been made
NoComparison ==
    [pc |-> "none"]

\* Records detectConflicts may be given: each significant field is missing
\* or has one of two values
ComparedRecords ==
    [name : {Null, "Push-ups", "PUSH-UPS"},
     description : {Null, "Basic bodyweight exercise", "Knee push-up"},
     category : {Null, "Strength", "Cardio"}]

\* detectConflicts is called with a pair of records and with the same pair
\* the other way round
DetectConflicts ==
    /\ compared.pc = "args"
    /\ compared' = [compared EXCEPT
                        !.pc = "returned",
                        !.AB = detectConflicts(compared.A, compared.B),
                        !.BA = detectConflicts(compared.B, compared.A)]
    /\ UNCHANGED <<gwVars, dbVars, preview, syncVars, bulkVars, discVars, mapCall, operation>>

NameMatchConflict ==
    [field |-> "Name match found - potential duplicate", old |-> Null, new |-> Null]

NameMatchReason ==
    "Exercise with same name already exists"

\* analyzeExercise that calls every id match a conflict, whatever
\* detectConflicts finds
analyzeExerciseIdMatchIsConflict(t, rows) ==
    LET mapped == mapTrainerizeData(t)
        byId == existingByTrainerizeId(rows, t.id)
        nameToCheck == toLowerCase(t.name)
        byName == IF Truthy(nameToCheck) THEN existingByName(rows, nameToCheck) ELSE 0
        base == [id |-> t.id, operation |-> "create", trainerize_data |-> t,
                 existing_data |-> 0, mapped_data |-> mapped,
                 conflicts |-> <<>>, reason |-> Null]
    IN IF byId # 0
       THEN [base EXCEPT !.operation = "conflict", !.existing_data = byId,
                         !.conflicts = detectConflicts(mapped, rows[byId])]
       ELSE IF byName # 0
       THEN [base EXCEPT !.operation = "conflict", !.existing_data = byName,
                         !.conflicts = <<NameMatchConflict>>,
                         !.reason = NameMatchReason]
       ELSE base

\* analyzeExercise with the name lookup done before the id lookup
analyzeExerciseNameFirst(t, rows) ==
    LET mapped == mapTrainerizeData(t)
        byId == existingByTrainerizeId(rows, t.id)
        nameToCheck == toLowerCase(t.name)
        byName == IF Truthy(nameToCheck) THEN existingByName(rows, nameToCheck) ELSE 0
        base == [id |-> t.id, operation |-> "create", trainerize_data |-> t,
                 existing_data |-> 0, mapped_data |-> mapped,
                 conflicts |-> <<>>, reason |-> Null]
    IN IF byName # 0
       THEN [base EXCEPT !.operation = "conflict", !.existing_data = byName,
                         !.conflicts = <<NameMatchConflict>>,
                         !.reason = NameMatchReason]
       ELSE IF byId # 0
       THEN LET conflicts == detectConflicts(mapped, rows[byId]) IN
            IF Len(conflicts) > 0
            THEN [base EXCEPT !.operation = "conflict", !.existing_data = byId,
                              !.conflicts = conflicts]
            ELSE [base EXCEPT !.operation = "update", !.existing_data = byId]
       ELSE base

\* analyzeExercise: existing_data is the primary key of the matched row
analyzeExercise(t, rows) ==
    LET mapped == mapTrainerizeData(t)
        byId == existingByTrainerizeId(rows, t.id)
        nameToCheck == toLowerCase(t.name)
        byName == IF Truthy(nameToCheck) THEN existingByName(rows, nameToCheck) ELSE 0
        base == [id |-> t.id, operation |-> "create", trainerize_data |-> t,
                 existing_data |-> 0, mapped_data |-> mapped,
                 conflicts |-> <<>>, reason |-> Null]
    IN IF byId # 0
       THEN LET conflicts == detectConflicts(mapped, rows[byId]) IN
            IF Len(conflicts) > 0
            THEN [base EXCEPT !.operation = "conflict", !.existing_data = byId,
                              !.conflicts = conflicts]
            ELSE [base EXCEPT !.operation = "update", !.existing_data = byId]
       ELSE IF byName # 0
       THEN [base EXCEPT !.operation = "conflict", !.existing_data = byName,
                         !.conflicts = <<NameMatchConflict>>,
                         !.reason = NameMatchReason]
       ELSE base

\* The pass a preview is: the second one when the preview before it was
\* taken of the same table
PassOf(rows) ==
    IF preview.status = "ok" /\ preview.table = rows THEN 2 ELSE 1

\* A previewSync that remembers the preview before it: a record it has
\* already proposed to create is skipped
PreviewSyncRemembering(ok) ==
    /\ trainerizeData # <<>>
    /\ preview' = IF ok
                  THEN [status |-> "ok",
                        operations |->
                            [i \in 1..Len(trainerizeData) |->
                                LET op == analyzeExercise(trainerizeData[i], exercises) IN
                                IF preview.status = "ok" /\ op.operation = "create"
                                THEN [op EXCEPT !.operation = "skip"] ELSE op],
                        table |-> exercises,
                        pass |-> PassOf(exercises)]
                  ELSE [status |-> "error"]
    /\ UNCHANGED <<gwVars, compared, mapCall, operation, dbVars, syncVars, bulkVars, discVars>>

\* A previewSync that writes a row to sync_logs for the pass it makes
PreviewSyncLogged(ok) ==
    /\ trainerizeData # <<>>
    /\ preview' = IF ok
                  THEN [status |-> "ok",
                        operations |-> [i \in 1..Len(trainerizeData) |->
                                           analyzeExercise(trainerizeData[i], exercises)],
                        table |-> exercises,
                        pass |-> PassOf(exercises)]
                  ELSE [status |-> "error"]
    /\ syncLogs' = Append(syncLogs, [sync_type |-> "manual", status |-> "completed"])
    /\ UNCHANGED <<gwVars, compared, mapCall, operation, dbVars, sync, runsLeft, writeKinds, writeCount,
                   failCount, bulkVars, discVars>>

\* previewSync: one operation per remote record, in order; a failure of
\* initialize / getExistingExercises is rethrown. table and pass record
\* which rows the preview was taken of
PreviewSync(ok) ==
    /\ trainerizeData # <<>>
    /\ preview' = IF ok
                  THEN [status |-> "ok",
                        operations |-> [i \in 1..Len(trainerizeData) |->
                                           analyzeExercise(trainerizeData[i], exercises)],
                        table |-> exercises,
                        pass |-> PassOf(exercises)]
                  ELSE [status |-> "error"]
    /\ UNCHANGED <<gwVars, compared, mapCall, operation, dbVars, syncVars, bulkVars, discVars>>

(***************************************************************************)
(* SyncService.performSync behind POST /api/sync/preview                   *)
(***************************************************************************)
OperationKinds ==
    {"create", "update", "skip", "conflict"}

\* The lists a client may post: any selection of the operations of the
\* preview it was given, in the order of the preview, each with the kind it
\* came with or with a kind the client chose
ClientOperations ==
    IF preview.status = "ok"
    THEN LET ops == preview.operations
             picked(I) == SelectSeq([i \in DOMAIN ops |-> i], LAMBDA i : i \in I)
         IN UNION {{[j \in DOMAIN picked(I) |->
                        [ops[picked(I)[j]] EXCEPT !.operation = kinds[j]]] :
                     kinds \in [DOMAIN picked(I) -> OperationKinds]} :
                   I \in SUBSET DOMAIN ops}
    ELSE {}

\* The lists of a client that posts operations as the preview gave them
PreviewSelections ==
    IF preview.status = "ok"
    THEN LET ops == preview.operations
             picked(I) == SelectSeq([i \in DOMAIN ops |-> i], LAMBDA i : i \in I)
         IN {[j \in DOMAIN picked(I) |-> ops[picked(I)[j]]] : I \in SUBSET DOMAIN ops}
    ELSE {}

\* POST without the filter of lines 44-46
validOperationsUnfiltered(operations) ==
    operations

\* POST lines 44-46
validOperations(operations) ==
    SelectSeq(operations, LAMBDA op : op.operation # "conflict" /\ op.operation # "skip")

NumCreates(ops) ==
    Cardinality({i \in DOMAIN ops : ops[i].operation = "create"})

EmptySummary ==
    [created |-> 0, updated |-> 0, skipped |-> 0, failed |-> 0]

\* What is remembered of the run before the present one
NoEarlierRun ==
    [ran |-> FALSE, operations |-> <<>>, failed |-> 0, table |-> <<>>]

IdleSyncRun ==
    [pc |-> "idle", posted |-> <<>>, operations |-> <<>>, next |-> 1, success |-> TRUE,
     performed |-> 0, summary |-> EmptySummary, audit_log_id |-> 0,
     earlier |-> NoEarlierRun]

\* The route handler: 400 when nothing is left after the filter, otherwise
\* initialize() and performSync(validOperations) up to createAuditLog
PostSync(operations, auditOk) ==
    /\ sync.pc \in {"idle", "done", "rejected", "failed"}
    /\ runsLeft["sync"] > 0
    /\ Len(exercises) + NumCreates(operations) <= MaxRows
    /\ runsLeft' = [runsLeft EXCEPT !["sync"] = @ - 1]
    /\ writeCount' = 0
    /\ failCount' = 0
    /\ LET valid == validOperations(operations)
           earlier == IF sync.pc = "done"
                      THEN [ran |-> TRUE, operations |-> sync.operations,
                            failed |-> sync.summary.failed, table |-> exercises]
                      ELSE sync.earlier
           run == [IdleSyncRun EXCEPT !.posted = operations, !.earlier = earlier]
       IN
       IF Len(valid) = 0
       THEN /\ sync' = [run EXCEPT !.pc = "rejected"]
            /\ UNCHANGED syncLogs
       ELSE IF ~auditOk
       THEN /\ sync' = [run EXCEPT !.pc = "failed", !.operations = valid]
            /\ UNCHANGED syncLogs
       ELSE /\ syncLogs' = Append(syncLogs, [sync_type |-> "manual", status |-> "started"])
            /\ sync' = [run EXCEPT !.pc = "items",
                                   !.operations = valid,
                                           !.audit_log_id = Len(syncLogs) + 1]
    /\ UNCHANGED <<gwVars, compared, mapCall, operation, dbVars, preview, writeKinds, bulkVars, discVars>>

\* insert([mapped_data]): the new row gets the next primary key
InsertRow(rows, data) ==
    Append(rows, data)

\* update(mapped_data).eq(primaryKey, pk): columns absent from the data keep
\* their value; no row with that key is not an error
UpdateRow(rows, pk, data) ==
    [i \in DOMAIN rows |->
        IF i = pk
        THEN [f \in DOMAIN rows[i] |-> IF Truthy(data[f]) THEN data[f] ELSE rows[i][f]]
        ELSE rows[i]]

\* createExercise / updateExercise that do not look at the returned error
ItemThrowsOnlyWithoutKey(op, dbOk) ==
    op.operation = "update" /\ op.existing_data = 0

\* createExercise / updateExercise throw: the storage call returned an
\* error, or an update has no existing_data / primary key
ItemThrows(op, dbOk) ==
    \/ op.operation \in {"create", "update"} /\ ~dbOk
    \/ op.operation = "update" /\ op.existing_data = 0

\* The storage statement is sent
ItemWrites(op) ==
    \/ op.operation = "create"
    \/ op.operation = "update" /\ op.existing_data # 0

logOperationRethrows(logOk) ==
    ~logOk

\* logOperation (lines 1372-1394): an error of the insert into sync_logs is
\* only warned about, nothing is thrown to createExercise / updateExercise
logOperationThrows(logOk) ==
    FALSE

\* One iteration of the loop of performSync (lines 1102-1124)
SyncItem(dbOk, logOk) ==
    /\ sync.pc = "items"
    /\ sync.next <= Len(sync.operations)
    /\ LET op == sync.operations[sync.next]
           candidate == IF op.operation = "create"
                        THEN InsertRow(exercises, op.mapped_data)
                        ELSE IF ItemWrites(op)
                        THEN UpdateRow(exercises, op.existing_data, op.mapped_data)
                        ELSE exercises
           accepted == dbOk /\ UniqueTrainerizeId(candidate)
           wrote == ItemWrites(op) /\ accepted
           threw == ItemThrows(op, accepted) \/ (wrote /\ logOperationThrows(logOk))
           s == sync.summary
       IN /\ writeKinds' = IF ItemWrites(op) THEN writeKinds \cup {op.operation} ELSE writeKinds
          /\ writeCount' = IF wrote THEN writeCount + 1 ELSE writeCount
          /\ failCount' = IF op.operation \in {"create", "update"} /\ ~wrote
                          THEN failCount + 1 ELSE failCount
          /\ exercises' = IF wrote THEN candidate ELSE exercises
          /\ syncLogs' = IF wrote /\ ~threw /\ logOk
                         THEN Append(syncLogs, [sync_type |-> "operation", status |-> "completed"])
                         ELSE syncLogs
          /\ sync' = IF threw
                     THEN [sync EXCEPT !.next = @ + 1, !.success = FALSE,
                                       !.summary = [s EXCEPT !.failed = @ + 1]]
                     ELSE [sync EXCEPT !.next = @ + 1, !.performed = @ + 1,
                                       !.summary =
                                          IF op.operation = "create"
                                          THEN [s EXCEPT !.created = @ + 1]
                                          ELSE IF op.operation = "update"
                                          THEN [s EXCEPT !.updated = @ + 1]
                                          ELSE [s EXCEPT !.skipped = @ + 1]]
    /\ UNCHANGED <<gwVars, compared, mapCall, operation, trainerizeData, preview, runsLeft, bulkVars, discVars>>

\* updateAuditLog(auditLogId, 'sync_complete', ...) and return (1126-1132);
\* an error of the update is only logged
SyncFinish(auditOk) ==
    /\ sync.pc = "items"
    /\ sync.next > Len(sync.operations)
    /\ syncLogs' = IF auditOk
                   THEN [syncLogs EXCEPT ![sync.audit_log_id].status = "completed"]
                   ELSE syncLogs
    /\ sync' = [sync EXCEPT !.pc = "done"]
    /\ UNCHANGED <<gwVars, compared, mapCall, operation, dbVars, preview, runsLeft, writeKinds, writeCount, failCount,
                   bulkVars, discVars>>

(***************************************************************************)
(* TrainerizeClient.bulkAddExercises behind PUT /api/exercises/add         *)
(***************************************************************************)

\* Rows the bulk add may find in the exercises table (name is NOT NULL):
\* rows not yet synced under three names, and a synced row
BulkRows ==
    [trainerize_id : {Null},
     name : {"Push-ups", "PUSH-UPS", "Squats"},
     description : {Null},
     category : {Null}]
        \cup {[trainerize_id |-> "tr_1", name |-> "Push-ups",
                description |-> Null, category |-> Null]}

\* What addExercise gets from makeRequest('/exercise/add'): a body with an
\* id, a body without one, null (404), the error thrown for a 401 (a 403
\* differs in its message only), or another thrown error
AddResponses ==
    {"id", "noId", "null", "auth", "throw"}

\* The message makeRequest throws for a 401 (line 206)
AuthError ==
    "Trainerize API authentication failed. Check your credentials."

\* The error member of what addExercise returns without success (lines
\* 544-557): the message of the thrown error, or the fixed text
AddError(mr) ==
    IF mr = "auth" THEN AuthError
    ELSE IF mr = "throw" THEN "Trainerize API error 500: Unknown error"
    ELSE "No ID returned from Trainerize"

EmptyResults ==
    [successful |-> <<>>, failed |-> <<>>, skipped |-> <<>>, duplicates |-> <<>>]

IdleBulkRun ==
    [pc |-> "idle", skipExisting |-> TRUE, checkForDuplicates |-> TRUE,
     exercises |-> <<>>, existingExercises |-> <<>>, i |-> 0,
     results |-> EmptyResults, bulkLog |-> 0, pauses |-> 0, tableAtFetch |-> <<>>,
     created |-> 0, errors |-> <<>>, announced |-> FALSE]


Event(type, current) ==
    [type |-> type, current |-> current]

\* The exerciseIds arrays a client may send: primary keys in any order, none
\* twice
IdLists(S) ==
    {ids \in SeqsUpTo(S, Cardinality(S)) :
        \A i, j \in DOMAIN ids : i # j => ids[i] # ids[j]}

\* .select('*').in('id', exerciseIds): the rows in table order, with their key
SelectIn(rows, ids) ==
    LET keys == SelectSeq([i \in 1..Len(rows) |-> i],
                          LAMBDA k : \E j \in DOMAIN ids : ids[j] = k)
    IN [j \in 1..Len(keys) |-> [id |-> keys[j], row |-> rows[keys[j]]]]

\* .select('name, trainerize_id').not('trainerize_id', 'is', null)
SelectSynced(rows) ==
    SelectSeq(rows, LAMBDA r : r.trainerize_id # Null)

\* existingExercises.find(...) of lines 624-626 comparing the names as they are
FindDuplicateCaseSensitive(existing, exercise) ==
    LET hits == {k \in DOMAIN existing : existing[k].name = exercise.name}
    IN IF hits = {} THEN 0 ELSE CHOOSE k \in hits : \A m \in hits : k <= m

\* existingExercises.find(...) of lines 624-626 (0 = undefined)
FindDuplicate(existing, exercise) ==
    LET hits == {k \in DOMAIN existing :
                    toLowerCase(existing[k].name) = toLowerCase(exercise.name)}
    IN IF hits = {} THEN 0 ELSE CHOOSE k \in hits : \A m \in hits : k <= m

\* addExercise: success needs a response that carries an id
AddSucceeds(mr) ==
    mr = "id"

\* PUT: insert the bulk log row, open the stream, write the start event
PutBulkAdd(ids, skipExisting, checkForDuplicates, logOk) ==
    /\ bulk.pc = "idle"
    /\ runsLeft["bulk"] > 0
    /\ runsLeft' = [runsLeft EXCEPT !["bulk"] = @ - 1]
    /\ \A j \in DOMAIN ids : ids[j] \in DOMAIN exercises
    /\ syncLogs' = IF logOk
                   THEN Append(syncLogs, [sync_type |-> "manual", status |-> "started"])
                   ELSE syncLogs
    /\ bulk' = [IdleBulkRun EXCEPT !.pc = "fetch",
                                   !.skipExisting = skipExisting,
                                   !.checkForDuplicates = checkForDuplicates,
                                   !.bulkLog = IF logOk THEN Len(syncLogs) + 1 ELSE 0]
    /\ exerciseIds' = ids
    /\ events' = <<Event("start", 0)>>
    /\ addCalls' = <<>>
    /\ UNCHANGED <<gwVars, compared, mapCall, operation, dbVars, preview, sync, writeKinds, writeCount,
                   failCount, remoteCount, discVars>>

\* bulkAddExercises lines 585-604: fetch the exercises and the synced rows
BulkFetch(existingOk) ==
    /\ bulk.pc = "fetch"
    /\ bulk' = [bulk EXCEPT !.pc = "loop",
                            !.tableAtFetch = exercises,
                            !.exercises = SelectIn(exercises, exerciseIds),
                            !.existingExercises =
                                IF bulk.checkForDuplicates /\ existingOk
                                THEN SelectSynced(exercises) ELSE <<>>]
    /\ UNCHANGED <<gwVars, compared, mapCall, operation, dbVars, preview, syncVars, exerciseIds, events, addCalls,
                   remoteCount, discVars>>

\* The fetch fails: bulkAddExercises throws, the route marks the log failed,
\* writes the error event and closes the stream (lines 274-297)
BulkFetchFails ==
    /\ bulk.pc = "fetch"
    /\ bulk' = [bulk EXCEPT !.pc = "closed"]
    /\ syncLogs' = IF bulk.bulkLog # 0
                   THEN [syncLogs EXCEPT ![bulk.bulkLog].status = "failed"]
                   ELSE syncLogs
    /\ events' = Append(events, Event("error", 0))
    /\ UNCHANGED <<gwVars, compared, mapCall, operation, dbVars, preview, sync, runsLeft, writeKinds, writeCount,
                   failCount, exerciseIds, addCalls, remoteCount, discVars>>

\* A push that also reports every duplicate as failed
PushDuplicateAlsoFailed(results, bucket, x) ==
    IF bucket = "duplicates"
    THEN [results EXCEPT !.duplicates = Append(@, x), !.failed = Append(@, x)]
    ELSE [results EXCEPT ![bucket] = Append(@, x)]

\* results.<bucket>.push(...) of the loop body
Push(results, bucket, x) ==
    [results EXCEPT ![bucket] = Append(@, x)]

\* The head of an iteration (lines 606-611): onProgress(i + 1, ...) is
\* called, and the route's callback writes the progress event, before the
\* item is looked at
BulkProgress ==
    /\ bulk.pc = "loop"
    /\ bulk.i < Len(bulk.exercises)
    /\ ~bulk.announced
    /\ bulk' = [bulk EXCEPT !.announced = TRUE]
    /\ events' = Append(events, [type |-> "progress", current |-> bulk.i + 1,
                                 exercise_name |-> bulk.exercises[bulk.i + 1].row.name])
    /\ UNCHANGED <<gwVars, compared, mapCall, operation, dbVars, preview, syncVars, exerciseIds, addCalls,
                   remoteCount, discVars>>

\* The rest of the iteration (lines 613-673)
BulkItem(mr, updateOk) ==
    /\ bulk.pc = "loop"
    /\ bulk.i < Len(bulk.exercises)
    /\ bulk.announced
    /\ LET item == bulk.exercises[bulk.i + 1]
           exercise == item.row
           duplicate == IF bulk.checkForDuplicates
                        THEN FindDuplicate(bulk.existingExercises, exercise) ELSE 0
           skipped == bulk.skipExisting /\ Truthy(exercise.trainerize_id)
           isDuplicate == ~skipped /\ duplicate # 0
           added == ~skipped /\ ~isDuplicate
           newId == remoteCount + 1
           pause == IF added /\ (bulk.i + 1) % PauseEvery = 0 THEN 1 ELSE 0
       IN /\ addCalls' = IF added THEN Append(addCalls, item.id) ELSE addCalls
          /\ remoteCount' = IF added /\ mr = "id" THEN newId ELSE remoteCount
          /\ exercises' = IF added /\ AddSucceeds(mr) /\ updateOk
                          THEN [exercises EXCEPT ![item.id].trainerize_id = RemoteId(newId)]
                          ELSE exercises
          /\ bulk' = [bulk EXCEPT
                        !.i = @ + 1,
                        !.announced = FALSE,
                        !.pauses = @ + pause,
                        !.created = IF added /\ mr = "id" THEN @ + 1 ELSE @,
                        !.errors = IF added /\ ~AddSucceeds(mr)
                                   THEN Append(@, AddError(mr)) ELSE @,
                        !.results =
                            IF skipped THEN Push(@, "skipped", item.id)
                            ELSE IF isDuplicate THEN Push(@, "duplicates", item.id)
                            ELSE IF AddSucceeds(mr) THEN Push(@, "successful", item.id)
                            ELSE Push(@, "failed", item.id)]
    /\ UNCHANGED <<gwVars, compared, mapCall, operation, trainerizeData, preview, syncVars, exerciseIds, events,
                   discVars>>

\* The loop is over: the route marks the log completed, writes the complete
\* event with the bucket sizes and closes the stream (lines 219-272, 296)
BulkComplete(logOk) ==
    /\ bulk.pc = "loop"
    /\ bulk.i = Len(bulk.exercises)
    /\ bulk' = [bulk EXCEPT !.pc = "closed"]
    /\ syncLogs' = IF bulk.bulkLog # 0 /\ logOk
                   THEN [syncLogs EXCEPT ![bulk.bulkLog].status = "completed"]
                   ELSE syncLogs
    /\ events' = Append(events,
                        [type |-> "complete", current |-> 0,
                         successful |-> Len(bulk.results.successful),
                         failed |-> Len(bulk.results.failed),
                         skipped |-> Len(bulk.results.skipped),
                         duplicates |-> Len(bulk.results.duplicates)])
    /\ UNCHANGED <<gwVars, compared, mapCall, operation, dbVars, preview, sync, runsLeft, writeKinds, writeCount,
                   failCount, exerciseIds, addCalls, remoteCount, discVars>>

NextBulk ==
    \/ \E ids \in IdLists(1..MaxLocal), se \in BOOLEAN, cd \in BOOLEAN, logOk \in BOOLEAN :
          PutBulkAdd(ids, se, cd, logOk)
    \/ \E existingOk \in BOOLEAN : BulkFetch(existingOk)
    \/ BulkFetchFails
    \/ BulkProgress
    \/ \E mr \in AddResponses, updateOk \in BOOLEAN : BulkItem(mr, updateOk)
    \/ \E logOk \in BOOLEAN : BulkComplete(logOk)

(***************************************************************************)
(* The discovery route: POST (streaming), DELETE                           *)
(***************************************************************************)
\* Two requests are enough for every interleaving of two handlers
DiscRuns ==
    {1, 2}

\* Request bodies: mode 'plans' with a list of user ids or with a userIds
\* that is no list, and a mode whose branch is the fallback
DiscRequests ==
    [mode : {"plans"}, users : 0..MaxUsers, iterable : {TRUE}]
        \cup {[mode |-> "plans", users |-> 0, iterable |-> FALSE],
              [mode |-> "range", users |-> 0, iterable |-> TRUE]}

\* What one user's plans and calendar can yield
FoundSets ==
    {{}, {"tr_1"}, {"tr_1", "tr_2"}}

\* Exercises the plans and calendars of a user may contain
DiscoveredExercises ==
    {"tr_1", "tr_2"}

DiscoveredName(id) ==
    IF id = "tr_1" THEN "Push-ups" ELSE "Squats"

\* itemsAtAbort: how far the run was when DELETE aborted its controller
IdleDiscRun ==
    [pc |-> "idle", mode |-> "plans", users |-> 0, iterable |-> TRUE,
     processed |-> 0, exercises |-> <<>>, next |-> 1, saved |-> 0, errors |-> 0,
     logId |-> 0, itemsAtAbort |-> 0]

\* Items of discovery request r that have been started: users discovered
\* and exercises handed to the save loop
ItemsStarted(r) ==
    disc[r].processed + (disc[r].next - 1)

\* allExercises.set(exercise.id, exercise) for every exercise found: a Map
\* keeps the position of a key that is set again
MergeFound(list, found) ==
    LET new == {e \in found : \A k \in DOMAIN list : list[k] # e}
        first == IF "tr_1" \in new THEN <<"tr_1">> ELSE <<>>
        second == IF "tr_2" \in new THEN <<"tr_2">> ELSE <<>>
    IN list \o first \o second

\* discoveryController?.signal.aborted read through the module variable
ProgressSuppressed(r) ==
    discoveryController # 0 /\ aborted[discoveryController]

\* upsert(..., { onConflict: 'trainerize_id' }): update the row with that
\* trainerize_id, insert one when there is none
UpsertRow(rows, id) ==
    LET hit == existingByTrainerizeId(rows, id)
        data == [trainerize_id |-> id, name |-> DiscoveredName(id),
                 description |-> Null, category |-> Null]
    IN IF hit = 0 THEN Append(rows, data) ELSE UpdateRow(rows, hit, data)

\* POST lines 206-222: the request is read and the running flag is checked
DiscPost(r, mode, users, iterable) ==
    /\ disc[r].pc = "idle"
    /\ \A q \in DiscRuns : q < r => disc[q].pc # "idle"
    /\ runsLeft["discovery"] > 0
    /\ runsLeft' = [runsLeft EXCEPT !["discovery"] = @ - 1]
    /\ IF discoveryRunning
       THEN disc' = [disc EXCEPT ![r] = [IdleDiscRun EXCEPT !.pc = "rejected409"]]
       ELSE disc' = [disc EXCEPT ![r] = [IdleDiscRun EXCEPT !.pc = "logging",
                                            !.mode = mode, !.users = users,
                                            !.iterable = iterable]]
    /\ UNCHANGED <<gwVars, compared, mapCall, operation, dbVars, preview, sync, syncLogs, writeKinds, writeCount,
                   failCount, bulkVars, discoveryRunning, discoveryController,
                   aborted, discEvents>>

\* POST lines 224-241 and handleStreamingDiscovery lines 263-279: the log
\* row is inserted, the flag and the controller are set, the start event is
\* written
DiscBegin(r, logOk) ==
    /\ disc[r].pc = "logging"
    /\ syncLogs' = IF logOk
                   THEN Append(syncLogs, [sync_type |-> "discovery", status |-> "started"])
                   ELSE syncLogs
    /\ disc' = [disc EXCEPT ![r].pc = "discover",
                            ![r].logId = IF logOk THEN Len(syncLogs) + 1 ELSE 0]
    /\ discoveryRunning' = TRUE
    /\ discoveryController' = r
    /\ discEvents' = [discEvents EXCEPT ![r] = <<Event("start", 0)>>]
    /\ UNCHANGED <<gwVars, compared, mapCall, operation, dbVars, preview, sync, runsLeft, writeKinds, writeCount,
                   failCount, bulkVars, aborted>>

\* batchDiscoverExercises: one user is processed (lines 430-447 of the
\* client) and onProgress writes a progress event unless the controller the
\* module variable points to is aborted
DiscUser(r, found) ==
    /\ disc[r].pc = "discover"
    /\ disc[r].mode = "plans"
    /\ disc[r].iterable
    /\ disc[r].processed < disc[r].users
    /\ disc' = [disc EXCEPT ![r].processed = @ + 1,
                            ![r].exercises = MergeFound(@, found)]
    /\ discEvents' = IF ProgressSuppressed(r)
                     THEN discEvents
                     ELSE [discEvents EXCEPT ![r] =
                              Append(@, Event("progress", disc[r].processed + 1))]
    /\ UNCHANGED <<gwVars, compared, mapCall, operation, dbVars, preview, syncVars, bulkVars, discoveryRunning,
                   discoveryController, aborted>>

\* The fallback of line 308: discoverExercisesFromPlans([groupId]), no callbacks
DiscFallback(r, found) ==
    /\ disc[r].pc = "discover"
    /\ disc[r].mode # "plans"
    /\ disc' = [disc EXCEPT ![r].pc = "save", ![r].exercises = MergeFound(<<>>, found)]
    /\ UNCHANGED <<gwVars, compared, mapCall, operation, dbVars, preview, syncVars, bulkVars, discoveryRunning,
                   discoveryController, aborted, discEvents>>

\* batchDiscoverExercises has returned
DiscFound(r) ==
    /\ disc[r].pc = "discover"
    /\ disc[r].mode = "plans"
    /\ disc[r].iterable
    /\ disc[r].processed = disc[r].users
    /\ disc' = [disc EXCEPT ![r].pc = "save"]
    /\ UNCHANGED <<gwVars, compared, mapCall, operation, dbVars, preview, syncVars, bulkVars, discoveryRunning,
                   discoveryController, aborted, discEvents>>

\* finally of lines 405-409
DiscFinally ==
    /\ discoveryRunning' = FALSE
    /\ discoveryController' = 0

\* An error event written from inside the run, which then goes on
DiscErrorAndGoOn(r, logOk) ==
    /\ disc[r].pc = "discover"
    /\ disc[r].mode = "plans"
    /\ ~disc[r].iterable
    /\ disc' = [disc EXCEPT ![r].pc = "save"]
    /\ discEvents' = [discEvents EXCEPT ![r] = Append(@, Event("error", 0))]
    /\ UNCHANGED <<gwVars, compared, mapCall, operation, dbVars, preview, syncVars, bulkVars, discoveryRunning,
                   discoveryController, aborted>>

\* userIds is not iterable: batchDiscoverExercises throws, the catch of
\* lines 384-404 marks the log failed and writes the error event
DiscError(r, logOk) ==
    /\ disc[r].pc = "discover"
    /\ disc[r].mode = "plans"
    /\ ~disc[r].iterable
    /\ disc' = [disc EXCEPT ![r].pc = "closed"]
    /\ syncLogs' = IF disc[r].logId # 0 /\ logOk
                   THEN [syncLogs EXCEPT ![disc[r].logId].status = "failed"]
                   ELSE syncLogs
    /\ discEvents' = [discEvents EXCEPT ![r] = Append(@, Event("error", 0))]
    /\ DiscFinally
    /\ UNCHANGED <<gwVars, compared, mapCall, operation, dbVars, preview, sync, runsLeft, writeKinds, writeCount,
                   failCount, bulkVars, aborted>>

\* One iteration of the save loop (lines 315-358): an upsert that returns
\* an error still counts as saved; building the row or the call throwing is
\* counted in errors and writes no event
DiscSave(r, upsert) ==
    /\ disc[r].pc = "save"
    /\ disc[r].next <= Len(disc[r].exercises)
    /\ exercises' = IF upsert = "ok"
                    THEN UpsertRow(exercises, disc[r].exercises[disc[r].next])
                    ELSE exercises
    /\ disc' = IF upsert = "throw"
               THEN [disc EXCEPT ![r].next = @ + 1, ![r].errors = @ + 1]
               ELSE [disc EXCEPT ![r].next = @ + 1, ![r].saved = @ + 1]
    /\ discEvents' = IF upsert = "throw"
                     THEN discEvents
                     ELSE [discEvents EXCEPT ![r] =
                              Append(@, Event("exercise_saved", disc[r].saved + 1))]
    /\ UNCHANGED <<gwVars, compared, mapCall, operation, trainerizeData, preview, syncVars, bulkVars,
                   discoveryRunning, discoveryController, aborted>>

\* Lines 360-382 and the finally: the log is completed, the complete event
\* is written, the flag and the controller are reset, the stream is closed
DiscComplete(r, logOk) ==
    /\ disc[r].pc = "save"
    /\ disc[r].next > Len(disc[r].exercises)
    /\ disc' = [disc EXCEPT ![r].pc = "closed"]
    /\ syncLogs' = IF disc[r].logId # 0 /\ logOk
                   THEN [syncLogs EXCEPT ![disc[r].logId].status = "completed"]
                   ELSE syncLogs
    /\ discEvents' = [discEvents EXCEPT ![r] =
                         Append(@, [type |-> "complete", current |-> 0,
                                    total |-> Len(disc[r].exercises),
                                    saved |-> disc[r].saved,
                                    errors |-> disc[r].errors])]
    /\ DiscFinally
    /\ UNCHANGED <<gwVars, compared, mapCall, operation, dbVars, preview, sync, runsLeft, writeKinds, writeCount,
                   failCount, bulkVars, aborted>>

\* DELETE lines 582-598
DiscDelete ==
    /\ \E r \in DiscRuns : disc[r].pc \notin {"idle", "closed", "rejected409"}
    /\ IF discoveryRunning /\ discoveryController # 0
       THEN /\ aborted' = [aborted EXCEPT ![discoveryController] = TRUE]
            /\ discoveryRunning' = FALSE
            /\ discoveryController' = 0
            /\ disc' = [disc EXCEPT
                          ![discoveryController].itemsAtAbort =
                              ItemsStarted(discoveryController)]
       ELSE UNCHANGED <<aborted, discoveryRunning, discoveryController, disc>>
    /\ UNCHANGED <<gwVars, compared, mapCall, operation, dbVars, preview, syncVars, bulkVars, discEvents>>

NextDiscovery ==
    \/ \E r \in DiscRuns, req \in DiscRequests :
          DiscPost(r, req.mode, req.users, req.iterable)
    \/ \E r \in DiscRuns, logOk \in BOOLEAN : DiscBegin(r, logOk)
    \/ \E r \in DiscRuns, found \in FoundSets : DiscUser(r, found)
    \/ \E r \in DiscRuns, found \in FoundSets : DiscFallback(r, found)
    \/ \E r \in DiscRuns : DiscFound(r)
    \/ \E r \in DiscRuns, logOk \in BOOLEAN : DiscError(r, logOk)
    \/ \E r \in DiscRuns, upsert \in {"ok", "error", "throw"} : DiscSave(r, upsert)
    \/ \E r \in DiscRuns, logOk \in BOOLEAN : DiscComplete(r, logOk)
    \/ DiscDelete

(***************************************************************************)
(* Initial states and specifications                                       *)
(***************************************************************************)
DefaultOptions ==
    [requestsPerSecond |-> DefaultRequestsPerSecond,
     maxRetries |-> DefaultMaxRetries,
     retryDelay |-> DefaultRetryDelay]

InitClient(callers, calls) ==
    /\ now = StartTime
    /\ lastRequestTime = 0
    /\ pc = [c \in Callers |-> IF c \in callers THEN "idle" ELSE "off"]
    /\ attempt = [c \in Callers |-> 1]
    /\ wake = [c \in Callers |-> 0]
    /\ waits = [c \in Callers |-> <<>>]
    /\ resps = [c \in Callers |-> <<>>]
    /\ result = [c \in Callers |-> NoResult]
    /\ callsLeft = [c \in Callers |-> IF c \in callers THEN calls ELSE 0]
    /\ queue = <<>>
    /\ recentStarts = <<>>
    /\ nHttp = [c \in Callers |-> 0]
    /\ lastResponseTime = 0

\* The state of the other components when a specification does not use them
IdleDb ==
    /\ exercises = <<>>
    /\ trainerizeData = <<>>

IdlePreview ==
    preview = [status |-> "none"]

IdleGateway ==
    /\ InitClient({}, 0)
    /\ options = DefaultOptions
    /\ server = {}

IdleBulk ==
    /\ bulk = IdleBulkRun
    /\ exerciseIds = <<>>
    /\ events = <<>>
    /\ addCalls = <<>>
    /\ remoteCount = 0

IdleDisc ==
    /\ disc = [r \in DiscRuns |-> IdleDiscRun]
    /\ discoveryRunning = FALSE
    /\ discoveryController = 0
    /\ aborted = [r \in DiscRuns |-> FALSE]
    /\ discEvents = [r \in DiscRuns |-> <<>>]

IdleCompare ==
    /\ compared = NoComparison
    /\ mapCall = NoMapCall
    /\ operation = [c \in Callers |-> NoOperation]

Routes ==
    {"sync", "bulk", "discovery"}

\* n requests to one route, none to the others
RunsOf(route, n) ==
    [q \in Routes |-> IF q = route THEN n ELSE 0]

IdleSyncState ==
    /\ sync = IdleSyncRun
    /\ syncLogs = <<>>
    /\ writeKinds = {}
    /\ writeCount = 0
    /\ failCount = 0

IdleSync ==
    /\ IdleSyncState
    /\ runsLeft = RunsOf("none", 0)

\* Two callers sharing the exported singleton trainerizeClient
Init ==
    /\ InitClient(Callers, MaxCalls)
    /\ options = DefaultOptions
    /\ server = {R200, R429}
    /\ IdleDb
    /\ IdlePreview
    /\ IdleSync
    /\ IdleBulk
    /\ IdleDisc
    /\ IdleCompare

\* One caller, every kind of response, every maxRetries
InitRetry ==
    /\ InitClient({1}, MaxCalls)
    /\ options \in {[DefaultOptions EXCEPT !.maxRetries = m] : m \in 1..MaxRetriesOpt}
    /\ server = Responses
    /\ IdleDb
    /\ IdlePreview
    /\ IdleSync
    /\ IdleBulk
    /\ IdleDisc
    /\ IdleCompare

Next ==
    \/ Tick
    \/ \E c \in Callers : Submit(c)
    \/ \E c \in Callers : RateLimitTimer(c)
    \/ \E c \in Callers, r \in Responses : Respond(c, r)
    \/ \E c \in Callers : BackoffTimer(c)

Spec ==
    Init /\ [][Next]_vars

SpecRetry ==
    InitRetry /\ [][Next]_vars

InitClassify ==
    /\ IdleGateway
    /\ exercises \in {rows \in SeqsUpTo(LocalRows, MaxLocal) : UniqueTrainerizeId(rows)}
    /\ trainerizeData \in RemoteSnapshots
    /\ IdlePreview
    /\ IdleSync
    /\ IdleBulk
    /\ IdleDisc
    /\ IdleCompare

SpecClassify ==
    InitClassify /\ [][\E ok \in BOOLEAN : PreviewSync(ok)]_vars

\* A sync run starts from an empty table or from one row whose description
\* and category are both set or both missing
InitSync ==
    /\ IdleGateway
    /\ exercises \in SeqsUpTo({r \in LocalRows : (r.description = Null) = (r.category = Null)}, 1)
    /\ trainerizeData \in RemoteSnapshots
    /\ IdlePreview
    /\ IdleSyncState
    /\ runsLeft = RunsOf("sync", 1)
    /\ IdleBulk
    /\ IdleDisc
    /\ IdleCompare

InitBulk ==
    /\ IdleGateway
    /\ exercises \in {rows \in SeqsUpTo(BulkRows, MaxLocal) : UniqueTrainerizeId(rows)}
    /\ trainerizeData = <<>>
    /\ IdlePreview
    /\ IdleSyncState
    /\ runsLeft = RunsOf("bulk", 1)
    /\ IdleBulk
    /\ IdleDisc
    /\ IdleCompare

NextSync ==
    \/ \E ok \in BOOLEAN : PreviewSync(ok) /\ sync.pc # "items"
    \/ \E ops \in ClientOperations, auditOk \in BOOLEAN :
          PostSync(ops, auditOk)
    \/ \E dbOk \in BOOLEAN, logOk \in BOOLEAN : SyncItem(dbOk, logOk)
    \/ \E auditOk \in BOOLEAN : SyncFinish(auditOk)

SpecSync ==
    InitSync /\ [][NextSync]_vars

\* The client takes a preview and posts more than once, each time operations
\* as the preview gave them: a list may be executed again
InitReplay ==
    /\ IdleGateway
    /\ exercises \in SeqsUpTo({r \in LocalRows : (r.description = Null) = (r.category = Null)}, 1)
    /\ trainerizeData \in RemoteSnapshots
    /\ IdlePreview
    /\ IdleSyncState
    /\ runsLeft = RunsOf("sync", MaxRuns + 1)
    /\ IdleBulk
    /\ IdleDisc
    /\ IdleCompare

NextReplay ==
    \/ \E ok \in BOOLEAN : PreviewSync(ok) /\ sync.pc = "idle"
    \/ \E ops \in PreviewSelections, auditOk \in BOOLEAN : PostSync(ops, auditOk)
    \/ \E dbOk \in BOOLEAN, logOk \in BOOLEAN : SyncItem(dbOk, logOk)
    \/ \E auditOk \in BOOLEAN : SyncFinish(auditOk)

SpecReplay ==
    InitReplay /\ [][NextReplay]_vars

\* A discovery request finds the table holding one of the exercises, under
\* the name it was given locally
InitDiscovery ==
    /\ IdleGateway
    /\ exercises = <<[trainerize_id |-> "tr_1", name |-> "PUSH-UPS",
                      description |-> Null, category |-> Null]>>
    /\ trainerizeData = <<>>
    /\ IdlePreview
    /\ IdleSyncState
    /\ runsLeft = RunsOf("discovery", Cardinality(DiscRuns))
    /\ IdleBulk
    /\ IdleDisc
    /\ IdleCompare

\* A bulk add of one item more than the pause interval: the first and the
\* last item before the pause are any row, the others are rows to add
PauseTables ==
    LET toAdd == [trainerize_id |-> Null, name |-> "Squats",
                  description |-> Null, category |-> Null]
    IN {t \in [1..(PauseEvery + 1) -> BulkRows] :
           /\ UniqueTrainerizeId(t)
           /\ \A i \in 2..(PauseEvery + 1) : i # PauseEvery => t[i] = toAdd}

InitPause ==
    /\ IdleGateway
    /\ exercises \in PauseTables
    /\ trainerizeData = <<>>
    /\ IdlePreview
    /\ IdleSyncState
    /\ runsLeft = RunsOf("bulk", 1)
    /\ IdleBulk
    /\ IdleDisc
    /\ IdleCompare

NextPause ==
    \/ \E se \in BOOLEAN, cd \in BOOLEAN :
          PutBulkAdd([i \in 1..(PauseEvery + 1) |-> i], se, cd, TRUE)
    \/ BulkFetch(TRUE)
    \/ BulkProgress
    \/ \E mr \in {"id", "throw"} : BulkItem(mr, TRUE)
    \/ BulkComplete(TRUE)

SpecPause ==
    InitPause /\ [][NextPause]_vars

\* An update operation for a row that has its timestamps, or lacks them
InitTimestamps ==
    /\ IdleGateway
    /\ exercises \in [1..1 -> StampedRows]
    /\ trainerizeData = <<[id |-> "tr_1", name |-> "Push-ups",
                           description |-> Null, category |-> Null]>>
    /\ IdlePreview
    /\ IdleSync
    /\ IdleBulk
    /\ IdleDisc
    /\ IdleCompare

NextTimestamps ==
    \/ Tick
    \/ MapForUpdate
    \/ UpdateMapped

SpecTimestamps ==
    InitTimestamps /\ [][NextTimestamps]_vars

\* mapSupabaseToTrainerize on its own, over every local exercise
InitToRemote ==
    /\ IdleGateway
    /\ IdleDb
    /\ IdlePreview
    /\ IdleSync
    /\ IdleBulk
    /\ IdleDisc
    /\ compared = NoComparison
    /\ mapCall \in [pc : {"args"}, exercise : LocalExercises, mapped : {Undefined}]
    /\ operation = [c \in Callers |-> NoOperation]

SpecToRemote ==
    InitToRemote /\ [][MapSupabaseToTrainerize]_vars

\* One caller of the client operations and of makeRequest
InitOperations ==
    /\ InitClient({1}, MaxCalls)
    /\ options = DefaultOptions
    /\ server = {R200, R429, R500}
    /\ IdleDb
    /\ IdlePreview
    /\ IdleSync
    /\ IdleBulk
    /\ IdleDisc
    /\ IdleCompare

NextOperations ==
    \/ Tick
    \/ \E c \in Callers, op \in {"addExercise", "updateExercise"},
          exercise \in OperationExercises : ClientOperation(c, op, exercise)
    \/ \E c \in Callers : OperationTimer(c)
    \/ \E c \in Callers : Submit(c)
    \/ \E c \in Callers : RateLimitTimer(c)
    \/ \E c \in Callers, r \in Responses : Respond(c, r)
    \/ \E c \in Callers : BackoffTimer(c)

SpecOperations ==
    InitOperations /\ [][NextOperations]_vars

SpecBulk ==
    InitBulk /\ [][NextBulk]_vars

SpecDiscovery ==
    InitDiscovery /\ [][NextDiscovery]_vars

\* detectConflicts on its own, over every pair of records
InitConflicts ==
    /\ IdleGateway
    /\ IdleDb
    /\ IdlePreview
    /\ IdleSync
    /\ IdleBulk
    /\ IdleDisc
    /\ compared \in [pc : {"args"}, A : ComparedRecords, B : ComparedRecords,
                      AB : {<<>>}, BA : {<<>>}]
    /\ mapCall = NoMapCall
    /\ operation = [c \in Callers |-> NoOperation]

SpecConflicts ==
    InitConflicts /\ [][DetectConflicts]_vars

\* Everything that writes to the exercises table
SpecStorage ==
    (InitSync \/ InitBulk \/ InitDiscovery) /\ [][NextSync \/ NextBulk \/ NextDiscovery]_vars

\* The two batch loops, each in the situations of its own specification
SpecBatches ==
    (InitSync \/ InitBulk) /\ [][NextSync \/ NextBulk]_vars

\* The two streaming handlers
SpecStreams ==
    (InitBulk \/ InitDiscovery) /\ [][NextBulk \/ NextDiscovery]_vars

(***************************************************************************)
(* Claims about the gateway                                                *)
(***************************************************************************)

\* C1: callers sharing one client are serialized in submit order: a fetch()
\* is in flight only for the oldest unfinished request, so at most one is in
\* flight and a later request issues no attempt before the earlier one has
\* finished all of its attempts.
C1_SerializedFIFO ==
    \A c \in Callers : pc[c] = "inflight" => (Len(queue) > 0 /\ Head(queue) = c)

\* C2: two consecutive fetch() calls of one client start at least
\* 1000/requestsPerSecond ms apart, whoever issued them.
C2_RateGap ==
    Len(recentStarts) = 2 => recentStarts[2] - recentStarts[1] >= rateLimitDelay

\* C3: with maxRetries = 3, the responses 429, 429, 200 give the caller the
\* data after exactly 3 fetches and exactly 2 backoff waits, the second
\* strictly longer than the first.
C3_BackoffThenSuccess ==
    \A c \in Callers :
        (options.maxRetries = 3 /\ resps[c] = <<R429, R429, R200>>)
        => /\ pc[c] = "idle"
           /\ result[c] = [kind |-> "data"]
           /\ nHttp[c] = 3
           /\ Len(waits[c]) = 2
           /\ waits[c][2] > waits[c][1]

C3_Witness ==
    \E c \in Callers :
        /\ options.maxRetries = 3
        /\ resps[c] = <<R429, R429, R200>>
        /\ pc[c] = "idle"
        /\ result[c].kind = "data"

\* C4: with maxRetries = 3, a request answered 429 three times surfaces the
\* 429 error after exactly 3 fetches: the third 429 starts no further wait
\* and no 4th fetch.
C4_RateLimitSurfaces ==
    \A c \in Callers :
        (options.maxRetries = 3 /\ Len(resps[c]) >= 3
           /\ \A i \in 1..3 : resps[c][i] = R429)
        => /\ pc[c] = "idle"
           /\ result[c].kind = "error" /\ result[c].status = 429
           /\ Len(resps[c]) = 3
           /\ nHttp[c] = 3
           /\ Len(waits[c]) = 2

C4_Witness ==
    \E c \in Callers :
        /\ options.maxRetries = 3
        /\ resps[c] = <<R429, R429, R429>>
        /\ result[c].kind = "error"

\* C5: a 401 or 403 response ends the request at once: the error is
\* surfaced, no wait follows it and no further fetch is made, whatever the
\* attempt number and maxRetries.
C5_AuthFailsImmediately ==
    \A c \in Callers :
        (Len(resps[c]) > 0 /\ resps[c][Len(resps[c])].status \in {401, 403})
        => /\ pc[c] = "idle"
           /\ result[c].kind = "error"
           /\ nHttp[c] = Len(resps[c])
           /\ Len(waits[c]) = Len(resps[c]) - 1

(***************************************************************************)
(* Claims about the classification                                         *)
(***************************************************************************)
SharesExternalId(t, row) ==
    Truthy(t.id) /\ row.trainerize_id = t.id

SharesName(t, row) ==
    Truthy(t.name) /\ Truthy(row.name) /\ toLowerCase(row.name) = toLowerCase(t.name)

\* C6: previewSync yields exactly one operation per remote record: update or
\* conflict (on a row with that externalId, without the name-collision
\* reason) when some local row has the record's externalId; otherwise the
\* name-collision conflict when some local row has its lower-cased name;
\* otherwise create.
C6_Classification ==
    preview.status = "ok" =>
        /\ Len(preview.operations) = Len(trainerizeData)
        /\ \A i \in 1..Len(trainerizeData) :
             LET t == trainerizeData[i]
                 op == preview.operations[i]
                 idMatch == \E j \in DOMAIN exercises : SharesExternalId(t, exercises[j])
                 nameMatch == \E j \in DOMAIN exercises : SharesName(t, exercises[j])
             IN /\ op.trainerize_data = t
                /\ idMatch =>
                     /\ op.operation \in {"update", "conflict"}
                     /\ op.reason = Null
                     /\ op.existing_data \in DOMAIN exercises
                     /\ SharesExternalId(t, exercises[op.existing_data])
                /\ (~idMatch /\ nameMatch) =>
                     /\ op.operation = "conflict"
                     /\ op.reason = NameMatchReason
                     /\ op.existing_data \in DOMAIN exercises
                     /\ SharesName(t, exercises[op.existing_data])
                /\ (~idMatch /\ ~nameMatch) =>
                     /\ op.operation = "create"
                     /\ op.existing_data = 0

\* a remote record whose externalId is on one row and whose name is on another
C6_Witness ==
    /\ preview.status = "ok"
    /\ \E i \in 1..Len(trainerizeData) :
         /\ \E j \in DOMAIN exercises : SharesExternalId(trainerizeData[i], exercises[j])
         /\ \E j \in DOMAIN exercises :
              /\ SharesName(trainerizeData[i], exercises[j])
              /\ ~SharesExternalId(trainerizeData[i], exercises[j])
         /\ preview.operations[i].operation = "update"


(***************************************************************************)
(* Claims about the batch runs and their streams                           *)
(***************************************************************************)

\* C7: an operation classified conflict or skip never causes a write: the
\* route removes such operations before performSync runs, so the list
\* performSync iterates holds only create and update operations, each
\* storage statement of a run belongs to a posted create or update
\* operation, and no gateway request is made.
C7_NoWriteForConflictOrSkip ==
    LET writable == {k \in DOMAIN sync.posted :
                        sync.posted[k].operation \in {"create", "update"}}
    IN /\ writeKinds \subseteq {"create", "update"}
       /\ \A k \in DOMAIN sync.operations :
             sync.operations[k].operation \notin {"conflict", "skip"}
       /\ sync.next - 1 <= Cardinality(writable)
       /\ writeCount <= Cardinality(writable)
       /\ sync.pc # "idle" => \A c \in Callers : nHttp[c] = 0

\* A finished run whose posted list held a conflict or skip operation next
\* to one that was written
C7_Witness ==
    /\ sync.pc = "done"
    /\ \E k \in DOMAIN sync.posted : sync.posted[k].operation \in {"conflict", "skip"}
    /\ writeCount > 0

C9_StreamEventOrder ==
    LET Ordered(ev) ==
            /\ ev[1].type = "start"
            /\ \A k \in 2..Len(ev) : ev[k].type # "start"
            /\ \A k \in 1..(Len(ev) - 1) :
                  ev[k].type \in {"start", "progress", "exercise_saved"}
        Terminated(ev) ==
            /\ Len(ev) >= 2
            /\ ev[Len(ev)].type \in {"complete", "error"}
    IN /\ bulk.pc \in {"fetch", "loop", "closed"} => Len(events) >= 1 /\ Ordered(events)
       /\ bulk.pc \in {"fetch", "loop"} =>
             \A k \in DOMAIN events : events[k].type \notin {"complete", "error"}
       /\ bulk.pc = "closed" => Terminated(events)
       /\ \A r \in DiscRuns :
             /\ disc[r].pc \in {"idle", "logging", "rejected409"} => discEvents[r] = <<>>
             /\ disc[r].pc \in {"discover", "save", "closed"} =>
                   Len(discEvents[r]) >= 1 /\ Ordered(discEvents[r])
             /\ disc[r].pc \in {"discover", "save"} =>
                   \A k \in DOMAIN discEvents[r] :
                      discEvents[r][k].type \notin {"complete", "error"}
             /\ disc[r].pc = "closed" => Terminated(discEvents[r])

\* A closed discovery stream with progress and exercise_saved events before
\* its complete event, and another one closed by an error event
C9_Witness ==
    /\ disc[1].pc = "closed"
    /\ \E k \in DOMAIN discEvents[1] : discEvents[1][k].type = "progress"
    /\ \E k \in DOMAIN discEvents[1] : discEvents[1][k].type = "exercise_saved"
    /\ discEvents[1][Len(discEvents[1])].type = "complete"
    /\ disc[2].pc = "closed"
    /\ discEvents[2][Len(discEvents[2])].type = "error"

\* C10: with duplicate checking enabled, an item to create (one without an
\* external id) whose name equals, ignoring case, the name of a local row
\* that was synced when the run started is put into the duplicates bucket
\* and no gateway create is issued for it.
C10_DuplicateShortCircuit ==
    bulk.checkForDuplicates =>
       \A j \in 1..bulk.i :
          LET item == bulk.exercises[j]
              synced == {k \in DOMAIN bulk.tableAtFetch :
                            /\ Truthy(bulk.tableAtFetch[k].trainerize_id)
                            /\ toLowerCase(bulk.tableAtFetch[k].name)
                                  = toLowerCase(item.row.name)}
          IN (~Truthy(item.row.trainerize_id) /\ synced # {}) =>
                /\ \E k \in DOMAIN bulk.results.duplicates :
                      bulk.results.duplicates[k] = item.id
                /\ \A k \in DOMAIN addCalls : addCalls[k] # item.id

(***************************************************************************)
(* Claims about repeated passes and the uniqueness of the external id      *)
(***************************************************************************)

\* C11: a pass over a remote set and an empty table yields one create per
\* remote record; once these creates have been applied, a pass over the same
\* remote set and the resulting table yields no operation to apply: no
\* create, update or conflict.
C11_SecondPassSettled ==
    /\ (preview.status = "ok" /\ preview.table = <<>>) =>
          /\ Len(preview.operations) = Len(trainerizeData)
          /\ \A i \in DOMAIN preview.operations : preview.operations[i].operation = "create"
    /\ (/\ preview.status = "ok"
        /\ sync.pc = "done"
        /\ sync.summary.created = Len(trainerizeData)
        /\ exercises = [i \in 1..Len(trainerizeData) |-> mapTrainerizeData(trainerizeData[i])]
        /\ preview.table = exercises) =>
          \A i \in DOMAIN preview.operations :
             preview.operations[i].operation \notin {"create", "update", "conflict"}

C14_UniqueExternalId ==
    /\ [](UniqueTrainerizeId(exercises))
    /\ [][LET createOf ==
                 IF sync.pc = "items" /\ sync'.next = sync.next + 1
                    /\ sync.operations[sync.next].operation = "create"
                 THEN {sync.operations[sync.next].mapped_data.trainerize_id}
                 ELSE {}
              savesOf ==
                 {disc[r].exercises[disc[r].next] :
                     r \in {q \in DiscRuns : disc[q].pc = "save"
                                             /\ disc'[q].next = disc[q].next + 1}}
          IN \A k \in DOMAIN exercises :
                (/\ Truthy(exercises[k].trainerize_id)
                 /\ exercises[k].trainerize_id \in createOf \cup savesOf) =>
                    exercises'[k] = exercises[k]]_vars

\* C15: every operation a preview classifies as conflict carries at least
\* one conflict entry or a non-empty reason, whether it comes from an id
\* match whose fields differ or from a name collision.
C15_ConflictExplained ==
    preview.status = "ok" =>
        \A i \in 1..Len(preview.operations) :
            preview.operations[i].operation = "conflict" =>
                \/ Len(preview.operations[i].conflicts) > 0
                \/ Truthy(preview.operations[i].reason)

\* one preview holding a conflict of each origin: an id match with differing
\* fields (entries, no reason) and a name collision (reason)
C15_Witness ==
    /\ preview.status = "ok"
    /\ \E i, j \in 1..Len(preview.operations) :
         /\ preview.operations[i].operation = "conflict"
         /\ preview.operations[i].reason = Null
         /\ Len(preview.operations[i].conflicts) > 0
         /\ \E k \in DOMAIN exercises :
               SharesExternalId(preview.operations[i].trainerize_data, exercises[k])
         /\ preview.operations[j].operation = "conflict"
         /\ preview.operations[j].reason = NameMatchReason
         /\ ~\E k \in DOMAIN exercises :
               SharesExternalId(preview.operations[j].trainerize_data, exercises[k])

\* C16: detectConflicts is symmetric: for all records A and B and every
\* significant field f, detectConflicts(A, B) reports f as differing if and
\* only if detectConflicts(B, A) does, with the two values the other way
\* round.
C16_ConflictSymmetry ==
    compared.pc = "returned" =>
        \A i \in 1..Len(significantFields) :
            LET f == significantFields[i]
                inAB == {k \in 1..Len(compared.AB) : compared.AB[k].field = f}
                inBA == {k \in 1..Len(compared.BA) : compared.BA[k].field = f}
            IN /\ (inAB # {}) <=> (inBA # {})
               /\ \A k \in inAB, l \in inBA :
                     /\ compared.AB[k].old = compared.BA[l].new
                     /\ compared.AB[k].new = compared.BA[l].old

\* a pair that differs in one field both have, and in one only A has
C16_Witness ==
    /\ compared.pc = "returned"
    /\ Len(compared.AB) = 1
    /\ Len(compared.BA) = 1
    /\ Truthy(compared.A.description)
    /\ ~Truthy(compared.B.description)
    /\ compared.AB[1].field = "name"

(***************************************************************************)
(* Claims about cancellation, the audit log and the outcome of a run        *)
(***************************************************************************)

\* C17: once the controller of a running discovery is aborted (DELETE), the
\* run starts no new item, the one in flight excepted: from then on at most
\* one more user is discovered or exercise handed to the save loop (the
\* steps that write the progress and exercise_saved events).
C17_CancelStopsItems ==
    \A r \in DiscRuns :
        aborted[r] => ItemsStarted(r) <= disc[r].itemsAtAbort + 1

\* C18: every run has its audit record: the row is in sync_logs with status
\* started while the run processes its items, and it is moved to completed
\* or failed once, by the step that ends the run, and never changes again.
C18_AuditBracketsRun ==
    /\ [](sync.pc = "items" =>
             /\ sync.audit_log_id \in DOMAIN syncLogs
             /\ syncLogs[sync.audit_log_id].status = "started")
    /\ [](bulk.pc \in {"fetch", "loop"} =>
             /\ bulk.bulkLog \in DOMAIN syncLogs
             /\ syncLogs[bulk.bulkLog].status = "started")
    /\ [][\A k \in DOMAIN syncLogs :
             syncLogs'[k].status # syncLogs[k].status =>
                /\ syncLogs[k].status = "started"
                /\ syncLogs'[k].status \in {"completed", "failed"}
                /\ \/ k = sync.audit_log_id /\ sync.pc = "items" /\ sync'.pc = "done"
                   \/ k = bulk.bulkLog /\ bulk.pc \in {"fetch", "loop"}
                                       /\ bulk'.pc = "closed"]_vars

\* C19: a run of performSync is reported successful (success flag of the
\* result, status completed of its audit record) only if none of its items
\* failed; with a failed item it is reported unsuccessful, and the step that
\* ends the run leaves the rows its items wrote as they are.
C19_SuccessOnlyWithoutFailures ==
    /\ [](sync.pc = "done" =>
             /\ sync.success => sync.summary.failed = 0
             /\ syncLogs[sync.audit_log_id].status = "completed" =>
                   sync.summary.failed = 0
             /\ sync.summary.failed > 0 =>
                   /\ ~sync.success
                   /\ syncLogs[sync.audit_log_id].status # "completed")
    /\ [][sync.pc = "items" /\ sync'.pc = "done" => exercises' = exercises]_vars

\* C20: an authentication failure of the gateway during a bulk run is fatal
\* for the run: once an item has met one, no further item of the batch is
\* started, and the run ends as failed (error event, log status failed)
\* rather than completed.
C20_AuthFailureIsFatal ==
    /\ [][(/\ \E k \in DOMAIN bulk.errors : bulk.errors[k] = AuthError
           /\ bulk.pc = "loop") => bulk'.i = bulk.i]_vars
    /\ []((/\ \E k \in DOMAIN bulk.errors : bulk.errors[k] = AuthError
           /\ bulk.pc = "closed") =>
              /\ events[Len(events)].type = "error"
              /\ bulk.bulkLog # 0 => syncLogs[bulk.bulkLog].status = "failed")

(***************************************************************************)
(* Claims about the order of a bulk run, the gateway's waits and retries    *)
(***************************************************************************)

\* C21: within one bulk add the progress events carry the indices 1, 2, ...
\* without gaps or repeats, there is one per item of the input list once
\* the run has completed, and the i-th progress event names the i-th item
\* of the input list.
C21_InputOrder ==
    LET progress == SelectSeq(events, LAMBDA e : e.type = "progress")
    IN /\ \A i \in DOMAIN progress :
             /\ progress[i].current = i
             /\ i <= Len(exerciseIds)
             /\ progress[i].exercise_name = exercises[exerciseIds[i]].name
       /\ (bulk.pc = "closed" /\ events[Len(events)].type = "complete") =>
             Len(progress) = Len(exerciseIds)

\* C22: a request is issued only when at least 1000/requestsPerSecond ms
\* have passed since the previous request completed: a fetch() that is
\* started after a response was received starts no earlier than
\* rateLimitDelay after that response.
C22_GapAfterCompletion ==
    \A c \in Callers :
        (/\ pc[c] = "inflight"
         /\ lastResponseTime > 0
         /\ lastRequestTime >= lastResponseTime) =>
            lastRequestTime - lastResponseTime >= rateLimitDelay

\* C23: every call of makeRequest ends (returns or throws) after at most
\* maxRetries fetches in all, whatever mix of 429, other statuses, body
\* codes and transport failures it meets: a response either ends the call
\* or is followed by one retry with the next attempt number, and the
\* response to fetch number maxRetries ends the call.
C23_BoundedAttempts ==
    \A c \in Callers :
        /\ nHttp[c] <= options.maxRetries
        /\ attempt[c] <= options.maxRetries
        /\ Len(resps[c]) <= nHttp[c]
        /\ pc[c] \in {"inflight", "rateWait"} => attempt[c] = Len(resps[c]) + 1
        /\ pc[c] = "backoff" => attempt[c] = Len(resps[c])
        /\ Len(resps[c]) = options.maxRetries =>
              /\ pc[c] = "idle"
              /\ result[c].kind \in {"data", "null", "error"}

\* a call that met a 429, then a 500, then a non-zero body code, and threw
C23_Witness ==
    \E c \in Callers :
        /\ options.maxRetries = 3
        /\ resps[c] = <<R429, R500, R200Code>>
        /\ nHttp[c] = 3
        /\ pc[c] = "idle"
        /\ result[c].kind = "error"

\* C24: the wait before retry number k + 1 is retryDelay * 2^(k-1) when
\* attempt k was answered 429, and retryDelay * k when it failed in another
\* way (another status, a body code, a transport failure); no retry waits
\* any other length.
C24_RetryWaits ==
    \A c \in Callers :
        \A k \in DOMAIN waits[c] :
            /\ k <= Len(resps[c])
            /\ resps[c][k].status = 429 =>
                  waits[c][k] = options.retryDelay * (2 ^ (k - 1))
            /\ resps[c][k].status # 429 =>
                  waits[c][k] = options.retryDelay * k

\* a call whose third attempt failed with a 500 after a 429 and a transport
\* failure: the first wait where the two rules differ
C24_Witness ==
    \E c \in Callers :
        /\ Len(waits[c]) = 3
        /\ resps[c] = <<R429, RNet, R500>>
        /\ waits[c][3] = 3 * options.retryDelay

\* C25: a request whose fetch is answered 404 returns the not-found
\* sentinel (null) instead of throwing, and that is its last fetch: no wait
\* and no further attempt follow a 404, whatever the attempt number.
C25_NotFoundSentinel ==
    \A c \in Callers :
        (Len(resps[c]) > 0 /\ resps[c][Len(resps[c])].status = 404) =>
            /\ pc[c] = "idle"
            /\ result[c] = [kind |-> "null"]
            /\ nHttp[c] = Len(resps[c])
            /\ Len(waits[c]) = Len(resps[c]) - 1

\* a 404 on the first attempt with retries left
C25_Witness ==
    \E c \in Callers :
        /\ options.maxRetries > 1
        /\ resps[c] = <<R404>>
        /\ result[c] = [kind |-> "null"]
        /\ nHttp[c] = 1

(***************************************************************************)
(* Claims about field conflicts, the frame of the preview, and bulk loops   *)
(***************************************************************************)

\* C26: for a remote record matched to a row by its external id: when some
\* significant field (name, description, category) has different values in
\* the mapped remote data and in the row, the operation is a conflict and
\* every such field has an entry in its conflict list; when none differs
\* the operation is an update.
C26_DifferingFieldsConflict ==
    preview.status = "ok" =>
        \A i \in 1..Len(preview.operations) :
            LET op == preview.operations[i]
                matched == \E j \in DOMAIN exercises :
                              SharesExternalId(op.trainerize_data, exercises[j])
                row == exercises[op.existing_data]
                differing == {k \in 1..Len(significantFields) :
                                 op.mapped_data[significantFields[k]]
                                     # row[significantFields[k]]}
            IN matched =>
                  /\ differing # {} =>
                        /\ op.operation = "conflict"
                        /\ \A k \in differing :
                              \E e \in DOMAIN op.conflicts :
                                 op.conflicts[e].field = significantFields[k]
                  /\ differing = {} => op.operation = "update"

\* C27: previewSync performs no writes: a step that produces a preview
\* leaves the exercises table, the remote records, the remote side and the
\* sync_logs table as they were, and makes no request to the gateway.
C27_PreviewWritesNothing ==
    [][preview' # preview =>
          /\ exercises' = exercises
          /\ trainerizeData' = trainerizeData
          /\ syncLogs' = syncLogs
          /\ remoteCount' = remoteCount
          /\ addCalls' = addCalls
          /\ nHttp' = nHttp
          /\ sync' = sync]_vars

\* a preview taken of a table a run has written to, with rows in sync_logs
C27_Witness ==
    /\ preview.status = "ok"
    /\ sync.pc = "done"
    /\ writeCount > 0
    /\ preview.table = exercises
    /\ Len(syncLogs) > 0

\* C28: for each item of a bulk add, the item's write (the gateway call and
\* the update of its row) is made before the progress event that carries
\* the item's index is written: every progress event on the stream carries
\* the index of an item the loop has finished.
C28_WriteBeforeProgress ==
    \A k \in DOMAIN events :
        events[k].type = "progress" => events[k].current <= bulk.i

\* C29: the bulk add pauses after every 5th item before it starts the next
\* one, whatever became of that 5th item: when an item is started, the
\* loop has paused once for every full five items before it.
C29_PauseEveryFifth ==
    (bulk.pc = "loop" /\ bulk.announced) =>
        bulk.pauses = bulk.i \div PauseEvery

\* C30: a discovery run whose controller was aborted (DELETE) while it was
\* in progress closes its stream with exactly one terminal event, the last
\* event of the stream, a complete event carrying the counts the run has
\* reached; and its audit record, when the run has one, is no longer started.
C30_CancelledRunTerminates ==
    \A r \in DiscRuns :
        (aborted[r] /\ disc[r].pc = "closed") =>
            LET ev == discEvents[r]
                terminal == {k \in DOMAIN ev : ev[k].type \in {"complete", "error"}}
            IN /\ terminal = {Len(ev)}
               /\ ev[Len(ev)].type = "complete" =>
                     /\ ev[Len(ev)].saved = disc[r].saved
                     /\ ev[Len(ev)].errors = disc[r].errors
               /\ disc[r].logId # 0 => syncLogs[disc[r].logId].status # "started"

\* C31: when the setup of a run fails (the sync service cannot initialise or
\* create its record, or the bulk add cannot fetch its batch) the run ends
\* with the error, no item has been processed and the run's audit record
\* is in sync_logs with status failed.
C31_SetupFailureRecorded ==
    /\ sync.pc = "failed" =>
          /\ sync.next = 1
          /\ writeCount = 0
          /\ sync.audit_log_id \in DOMAIN syncLogs
          /\ syncLogs[sync.audit_log_id].status = "failed"
    /\ (bulk.pc = "closed" /\ events[Len(events)].type = "error") =>
          /\ bulk.i = 0
          /\ addCalls = <<>>
          /\ bulk.bulkLog \in DOMAIN syncLogs
          /\ syncLogs[bulk.bulkLog].status = "failed"

\* C32: a failed write of the per-item log entry never fails the operation:
\* a step of the run in which the item's storage write succeeds and no log
\* entry is written counts the item as created or updated, counts nothing
\* as failed, keeps the run successful so far, and goes on to the next item.
C32_LogFailureNotFatal ==
    [][(sync.pc = "items" /\ writeCount' = writeCount + 1 /\ syncLogs' = syncLogs) =>
          /\ sync'.summary.failed = sync.summary.failed
          /\ sync'.summary.created + sync'.summary.updated
                = sync.summary.created + sync.summary.updated + 1
          /\ sync'.success = sync.success
          /\ sync'.performed = sync.performed + 1
          /\ sync'.pc = "items"
          /\ sync'.next = sync.next + 1]_vars

\* A finished run that wrote one row, logged no item, and counts one
\* created or updated item and no failure
C32_Witness ==
    /\ sync.pc = "done"
    /\ writeCount = 1
    /\ \A k \in DOMAIN syncLogs : syncLogs[k].sync_type # "operation"
    /\ sync.summary.created + sync.summary.updated = 1
    /\ sync.summary.failed = 0
    /\ sync.success

\* C33: in the remote-to-local mapping updated_at is always the current
\* time and created_at is set only when the record has none: after an update
\* operation has been applied, the row's updated_at is the time of the
\* mapping and a row that had a created_at still has the same one.
C33_CreatedAtKept ==
    mapCall.pc = "updated" =>
        /\ exercises[mapCall.pk].updated_at = mapCall.at
        /\ mapCall.existing_data.created_at # NoTime =>
              exercises[mapCall.pk].created_at = mapCall.existing_data.created_at

\* C34: a field is in the output of mapSupabaseToTrainerize only if it is
\* the remote field of an entry of the mapping table whose local value is
\* present (neither null nor undefined) and whose transform, if any, yields
\* a value; the name field is no exception, and nothing else is in the
\* output.  (A field holding undefined is not counted as included.)
C34_OnlyPresentMappedFields ==
    mapCall.pc = "returned" =>
        \A k \in DOMAIN mapCall.mapped :
            mapCall.mapped[k].kind # "undefined" =>
                \E i \in DOMAIN fieldMappings :
                    /\ fieldMappings[i].trainerizeField = k
                    /\ ~IsAbsent(mapCall.exercise[fieldMappings[i].supabaseField])
                    /\ Transformed(fieldMappings[i],
                                   mapCall.exercise[fieldMappings[i].supabaseField]).kind
                          # "undefined"

\* C35: at most one discovery task executes at any time, and the running
\* flag of the route is true exactly while a task is executing.
C35_SingleDiscovery ==
    LET executing == {r \in DiscRuns : disc[r].pc \in {"discover", "save"}}
    IN /\ Cardinality(executing) <= 1
       /\ discoveryRunning <=> executing # {}

\* C36: bulkAddExercises puts every fetched item in exactly one of the
\* buckets successful, failed, skipped, duplicates: during the loop the
\* items handled so far, and at the return all fetched items, are each in
\* one bucket and in no second one, and the bucket sizes sum to their number.
C36_BucketsPartition ==
    LET Buckets == {"successful", "failed", "skipped", "duplicates"}
        In(b, id) == \E k \in DOMAIN bulk.results[b] : bulk.results[b][k] = id
        size == Len(bulk.results.successful) + Len(bulk.results.failed)
                   + Len(bulk.results.skipped) + Len(bulk.results.duplicates)
    IN bulk.pc \in {"loop", "closed"} =>
          /\ size = bulk.i
          /\ \A j \in 1..bulk.i :
                Cardinality({b \in Buckets : In(b, bulk.exercises[j].id)}) = 1
          /\ (bulk.pc = "closed" /\ events[Len(events)].type = "complete") =>
                /\ bulk.i = Len(bulk.exercises)
                /\ events[Len(events)].successful + events[Len(events)].failed
                      + events[Len(events)].skipped + events[Len(events)].duplicates
                      = Len(bulk.exercises)

\* A returned run of two items, one of them a duplicate and the other one
\* created, with duplicate checking on
C36_Witness ==
    /\ bulk.pc = "closed"
    /\ bulk.checkForDuplicates
    /\ Len(bulk.exercises) = 2
    /\ Len(bulk.results.duplicates) = 1
    /\ Len(bulk.results.successful) = 1

\* C37: when bulkAddExercises has returned, every item of the successful
\* bucket has its local row linked to a remote record created by the run
\* (trainerize_id is one of the ids the gateway returned), whatever the
\* outcome of the update of the row that follows the create.
C37_SuccessfulIsLinked ==
    bulk.pc = "closed" =>
        \A k \in DOMAIN bulk.results.successful :
            exercises[bulk.results.successful[k]].trainerize_id
                \in {RemoteId(n) : n \in 1..remoteCount}

\* C38: within one bulk add with duplicate checking on, /exercise/add is
\* called at most once per exercise name, compared without regard to case,
\* also for two unsynced items of the batch that have the same name.
C38_OneCreatePerName ==
    bulk.checkForDuplicates =>
        \A j, k \in DOMAIN addCalls :
            j # k => toLowerCase(bulk.tableAtFetch[addCalls[j]].name)
                        # toLowerCase(bulk.tableAtFetch[addCalls[k]].name)

\* C39: the watermark lastRequestTime changes only when an HTTP request is
\* issued: after any sequence of makeRequest, addExercise and updateExercise
\* calls it is the time at which the most recent HTTP attempt was started
\* (and its initial value while none was).
C39_WatermarkIsLastRequest ==
    lastRequestTime = IF recentStarts = <<>> THEN 0
                      ELSE recentStarts[Len(recentStarts)]

====
